---- MODULE Spec2Model ----
(***************************************************************************)
(* Model of the code2seq context encoder of fairseq-context:               *)
(*   fairseq/models/fconv.py  Code2SeqEncoder.forward, _split_seq,         *)
(*                            _truncate_seqs                               *)
(*                            FConvMultiContextEncoder.forward             *)
(*                            FConvContextEncoder.forward                  *)
(*                            FConvDecoder._split_encoder_out,             *)
(*                            reorder_incremental_state                    *)
(*   fairseq/data/language_pair_with_multi_context_dataset.py  collate,    *)
(*                            __getitem__                                  *)
(*   code2seq_to_fairseq.py   the conversion loop                          *)
(*                                                                         *)
(* Spec follows one call of Code2SeqEncoder.forward on a collated batch    *)
(* (its sample list is given in batch order, i.e. as collate has sorted    *)
(* it); SpecCollate follows collate from a sample list to the batch dict,  *)
(* SpecConvert the conversion script line by line, SpecTruncate one call   *)
(* of _truncate_seqs, SpecMulti one call of                                *)
(* FConvMultiContextEncoder.forward, SpecGetItem one call of __getitem__,  *)
(* SpecContext two calls of FConvContextEncoder.forward, SpecDecoder the   *)
(* calls on a FConvDecoder during one decoding and SpecAgain repeated      *)
(* calls of Code2SeqEncoder.forward on one encoder.                        *)
(*                                                                         *)
(* Tensors are sequences (1-based in TLA+); every index VALUE the code     *)
(* stores (split_inds, nonzero positions, cur_max, slice bounds) keeps the *)
(* code's 0-based value and is shifted by one only where a sequence is     *)
(* subscripted.                                                            *)
(*                                                                         *)
(* Learned numeric maps (embedding rows, the BiLSTM, the linear layer and  *)
(* tanh) are modelled as free terms: an embedding of a non-pad token is    *)
(* the generator named by the token, a sum of vectors is the bag of its    *)
(* generators, the zero vector is the empty bag, and a vector divided by   *)
(* n is the pair (bag, n).  Two such values are equal exactly when the     *)
(* code's tensors are equal for generic weights.                           *)
(***************************************************************************)
EXTENDS Integers, Sequences, FiniteSets, Bags, TLC

-----------------------------------------------------------------------------
(* Bounds of the model *)

\* largest batch size B
MaxB == 2
\* largest total number of (unpadded) context tokens in a batch of
\* arbitrary samples
MaxTok == 5
\* largest total length of the start-leaf streams in a batch of aligned
\* samples (samples whose three streams have the same shape)
MaxShape == 6
\* largest total number of tokens (source, target and start-leaf stream)
\* of a sample list handed to collate
MaxItemTok == 6
\* largest total number of parts (the pieces between spaces, pipes and
\* line ends) of the input file of code2seq_to_fairseq
MaxParts == 7
\* largest source length in a batch handed to FConvMultiContextEncoder
MaxSrcLen == 5
\* largest number of rows of a flat tensor handed to _truncate_seqs
MaxRows == 2
\* largest width of a flat tensor handed to _truncate_seqs
MaxWidth == 3
\* most tokens of the leaf item and the path item of one dataset entry
MaxEntryTok == 4
\* most tokens of the source and the context batch of one call of
\* FConvContextEncoder.forward
MaxCallTok == 6
\* most calls on the decoder in one decoding; source positions and channels
\* of an encoder output
MaxSteps == 3
EncLen == 2
\* most cost (tokens of the start-leaf stream plus one per sample) of the
\* batch of a repeated call of Code2SeqEncoder.forward
MaxAgainCost == 6
EncDim == 1

-----------------------------------------------------------------------------
(* Dictionary symbols and constructor parameters *)

\* pad_idx handed to collate (src_dict.pad())
pad_idx == 1
\* leaf_dictionary.pad()
leaf_pad == 1
\* path_dictionary.pad()
path_pad == 1
\* leaf_dictionary.path(), the delimiter of the two leaf streams
leaf_path == 4
\* leaf_dict.leaf(), the marker between the two leaves of a leaf item
leaf_leaf == 5
\* path_dictionary.path(), the delimiter of the path stream
path_path == 4
\* an ordinary (non-reserved) token of the leaf vocabulary
leaf_word == 6
\* an ordinary (non-reserved) token of the path vocabulary
path_word == 7
\* eos_idx handed to collate (src_dict.eos())
eos_idx == 2
\* an ordinary (non-reserved) token of the source vocabulary
src_word == 5
\* an ordinary (non-reserved) token of the target vocabulary
tgt_word == 9
\* Code2SeqEncoder(max_leaf_positions=128)
max_leaf_positions == 128
\* Code2SeqEncoder(max_path_positions=128)
max_path_positions == 128

\* value of a local that has not been assigned yet
None == <<>>

-----------------------------------------------------------------------------
(* Generic helpers: Python / torch primitives *)

Min(a, b) == IF a <= b THEN a ELSE b
Max(a, b) == IF a >= b THEN a ELSE b

\* max over a set of naturals, 0 for the empty set
SetMax(S) == IF S = {} THEN 0 ELSE CHOOSE m \in S : \A x \in S : x <= m

\* Python slice s[a:b] of a sequence, for 0 <= a; b is clamped to len(s)
PySlice(s, a, b) ==
    LET hi == Min(b, Len(s))
    IN  IF a >= hi THEN <<>> ELSE [k \in 1..(hi - a) |-> s[a + k]]

\* concatenation of a sequence of sequences
RECURSIVE Flatten(_)
Flatten(ss) == IF ss = <<>> THEN <<>> ELSE Head(ss) \o Flatten(Tail(ss))

\* torch.cumsum(v, 0)
RECURSIVE SumUpTo(_, _)
SumUpTo(v, k) == IF k = 0 THEN 0 ELSE SumUpTo(v, k - 1) + v[k]
cumsum(v) == [k \in 1..Len(v) |-> SumUpTo(v, k)]

\* (tokens == sym).sum(1): per row, the number of positions holding sym
RowCounts(tokens, sym) ==
    [r \in 1..Len(tokens) |->
        Cardinality({c \in 1..Len(tokens[r]) : tokens[r][c] = sym})]

\* torch.nonzero(tokens == sym): the <<row, col>> pairs (0-based), row-major
\* the matching positions listed column by column instead of row by row
nonzero_by_column(tokens, sym) ==
    LET B == Len(tokens)
        W == IF B = 0 THEN 0 ELSE Len(tokens[1])
        all == [k \in 1..(B * W) |-> <<(k - 1) % B, (k - 1) \div B>>]
    IN  SelectSeq(all, LAMBDA p : tokens[p[1] + 1][p[2] + 1] = sym)

nonzero(tokens, sym) ==
    LET B == Len(tokens)
        W == IF B = 0 THEN 0 ELSE Len(tokens[1])
        all == [k \in 1..(B * W) |-> <<(k - 1) \div W, (k - 1) % W>>]
    IN  SelectSeq(all, LAMBDA p : tokens[p[1] + 1][p[2] + 1] = sym)

\* column k (0-based) of a two-column index tensor: inds[:, k]
Column(inds, k) == [j \in 1..Len(inds) |-> inds[j][k + 1]]

\* nn.utils.rnn.pad_sequence(seqs, batch_first=True, padding_value=pad)
pad_sequence(seqs, pad) ==
    LET W == SetMax({Len(seqs[j]) : j \in 1..Len(seqs)})
    IN  [j \in 1..Len(seqs) |->
            [c \in 1..W |-> IF c <= Len(seqs[j]) THEN seqs[j][c] ELSE pad]]

\* data_utils.collate_tokens(values, pad_idx, eos_idx, left_pad=True):
\* every row copied to the right end of a row of the batch maximum width
collate_tokens(values, pad) ==
    LET W == SetMax({Len(values[j]) : j \in 1..Len(values)})
    IN  [j \in 1..Len(values) |->
            [c \in 1..W |-> IF c <= W - Len(values[j]) THEN pad
                            ELSE values[j][c - (W - Len(values[j]))]]]

-----------------------------------------------------------------------------
(* Inputs: the sample lists a batch is collated from *)

LeafAlphabet == {leaf_path, leaf_word}
PathAlphabet == {path_path, path_word}

\* number of context tokens of one sample
SampleSize(s) == Len(s.start_leaf) + Len(s.end_leaf) + Len(s.path)

\* number of context tokens of a sample list
RECURSIVE TotalSize(_)
TotalSize(ss) == IF ss = <<>> THEN 0 ELSE SampleSize(Head(ss)) + TotalSize(Tail(ss))

\* the sample of a shape: a delimiter where the shape is TRUE, a word
\* elsewhere, in each of the three streams
AlignedSample(shape) ==
    [start_leaf |-> [k \in 1..Len(shape) |->
                        IF shape[k] THEN leaf_path ELSE leaf_word],
     end_leaf |-> [k \in 1..Len(shape) |->
                        IF shape[k] THEN leaf_path ELSE leaf_word],
     path |-> [k \in 1..Len(shape) |->
                        IF shape[k] THEN path_path ELSE path_word]]

\* the three streams of s have the same shape
Aligned(s) ==
    s = AlignedSample([k \in 1..Len(s.start_leaf) |->
                            s.start_leaf[k] = leaf_path])

\* total length of the start-leaf streams of a sample list
RECURSIVE ShapeSize(_)
ShapeSize(ss) ==
    IF ss = <<>> THEN 0 ELSE Len(Head(ss).start_leaf) + ShapeSize(Tail(ss))

-----------------------------------------------------------------------------
(* Code2SeqEncoder._split_seq and _truncate_seqs *)

\* subsplit without the final boundary at max_length: no trailing segment
subsplit_no_end(tokens, lengths, splits, sinds, i) ==
    LET max_length == Len(tokens[1])
        sentence_splits == Column(PySlice(splits, sinds[i + 1], sinds[i + 2]), 1)
        raw == <<max_length - lengths[i + 1] - 1>> \o sentence_splits
    IN  [k \in 1..Len(raw) |-> raw[k] + 1]

\* subsplit whose first boundary is the start of the padded row
subsplit_from_row_start(tokens, lengths, splits, sinds, i) ==
    LET max_length == Len(tokens[1])
        sentence_splits == Column(PySlice(splits, sinds[i + 1], sinds[i + 2]), 1)
        raw == <<-1>> \o sentence_splits \o <<max_length>>
    IN  [k \in 1..Len(raw) |-> raw[k] + 1]

\* the boundaries computed for row i (0-based):
\* cat(([max_length - lengths[i] - 1], sentence_splits, [max_length])) + 1
subsplit(tokens, lengths, splits, sinds, i) ==
    LET max_length == Len(tokens[1])
        sentence_splits == Column(PySlice(splits, sinds[i + 1], sinds[i + 2]), 1)
        raw == <<max_length - lengths[i + 1] - 1>> \o sentence_splits
                    \o <<max_length>>
    IN  [k \in 1..Len(raw) |-> raw[k] + 1]

\* split_lengths without the "- 1": every length counts the delimiter too
split_lengths_with_delimiter(tokens, lengths, splits, sinds, i) ==
    LET ss == subsplit(tokens, lengths, splits, sinds, i)
    IN  [k \in 1..(Len(ss) - 1) |-> ss[k + 1] - ss[k]]

\* split_lengths = subsplit[1:] - subsplit[:-1] - 1
split_lengths(tokens, lengths, splits, sinds, i) ==
    LET ss == subsplit(tokens, lengths, splits, sinds, i)
    IN  [k \in 1..(Len(ss) - 1) |-> ss[k + 1] - ss[k] - 1]

\* RowSeqs that skips the empty slices
RowSeqs_skip_empty(tokens, lengths, splits, sinds, i) ==
    LET ss == subsplit(tokens, lengths, splits, sinds, i)
        sl == split_lengths(tokens, lengths, splits, sinds, i)
    IN  SelectSeq([k \in 1..Len(sl) |->
                        PySlice(tokens[i + 1], ss[k], ss[k] + sl[k])],
                  LAMBDA q : q # <<>>)

\* the slices tokens[i, start:end] of row i (0-based)
RowSeqs(tokens, lengths, splits, sinds, i) ==
    LET ss == subsplit(tokens, lengths, splits, sinds, i)
        sl == split_lengths(tokens, lengths, splits, sinds, i)
    IN  [k \in 1..Len(sl) |-> PySlice(tokens[i + 1], ss[k], ss[k] + sl[k])]

\* _split_seq(tokens, lengths, splits, split_inds) of an encoder whose
\* leaf_dictionary.pad() is dict_pad:
\* returns (padded, seq_lengths, padded != leaf_dictionary.pad())
_split_seq_of(dict_pad, tokens, lengths, splits, sinds) ==
    LET B == Len(tokens)
        seqs == Flatten([r \in 1..B |->
                            RowSeqs(tokens, lengths, splits, sinds, r - 1)])
        seq_lengths == Flatten([r \in 1..B |->
                            split_lengths(tokens, lengths, splits, sinds, r - 1)])
        padded == pad_sequence(seqs, dict_pad)
    IN  [padded |-> padded,
         seq_lengths |-> seq_lengths,
         mask |-> [j \in 1..Len(padded) |->
                    [c \in 1..Len(padded[j]) |-> padded[j][c] # dict_pad]]]

\* _split_seq of the encoder whose leaf dictionary pads with leaf_pad
_split_seq(tokens, lengths, splits, sinds) ==
    _split_seq_of(leaf_pad, tokens, lengths, splits, sinds)

\* a clamp that only raises negative entries to 0
clamp_below(v, hi) == [j \in 1..Len(v) |-> Max(0, v[j])]

\* torch.clamp(v, 0, hi) on a vector
clamp(v, hi) == [j \in 1..Len(v) |-> Max(0, Min(v[j], hi))]

\* t[:, :m]
Crop(t, m) == [j \in 1..Len(t) |-> PySlice(t[j], 0, m)]

\* _truncate_seqs(max_length, seqs, seq_lens, seq_masks); None stays None
_truncate_seqs(max_length, seqs, seq_lens, seq_masks) ==
    IF (IF Len(seqs) = 0 THEN 0 ELSE Len(seqs[1])) <= max_length
    THEN [seqs |-> seqs, seq_lens |-> seq_lens, seq_masks |-> seq_masks]
    ELSE [seqs |-> Crop(seqs, max_length),
          seq_lens |-> IF seq_lens = None THEN None
                       ELSE clamp(seq_lens, max_length),
          seq_masks |-> IF seq_masks = None THEN None
                        ELSE Crop(seq_masks, max_length)]

-----------------------------------------------------------------------------
(* Vectors as free terms *)

\* the all-zero vector
ZeroVec == EmptyBag

\* Embedding(num, dim, padding_idx) applied to one token: the row of the
\* padding index is constant 0, every other row is a generator of its own
Embedding(tok, padding_idx) ==
    IF tok = padding_idx THEN ZeroVec ELSE SetToBag({tok})

\* torch.sum over a sequence of vectors
RECURSIVE VecSum(_)
VecSum(vs) == IF vs = <<>> THEN ZeroVec ELSE Head(vs) (+) VecSum(Tail(vs))

\* torch.sum(leaf_embedding(seqs).masked_fill_(mask.unsqueeze(2), 0), dim=1):
\* positions where the mask is TRUE are overwritten with 0, then summed
MaskedEmbeddingSum(seqs, mask) ==
    [j \in 1..Len(seqs) |->
        VecSum([c \in 1..Len(seqs[j]) |->
                    IF mask[j][c] THEN ZeroVec
                    ELSE Embedding(seqs[j][c], leaf_pad)])]

\* path_embedding(path_seqs), one entry per token (0 is the zero row)
PathEmbedding(seqs) ==
    [j \in 1..Len(seqs) |->
        [c \in 1..Len(seqs[j]) |->
            IF seqs[j][c] = path_pad THEN 0 ELSE seqs[j][c]]]

\* final (forward, backward) hidden state of the BiLSTM over a packed row:
\* a function of the first len embedded tokens only
LstmFinalState(row, len) == PySlice(row, 0, len)

\* tanh(fc(cat((h, s, e)))) for one flat row
FuseRow(h, s, e) == [h |-> h, s |-> s, e |-> e]

\* a vector v divided by the scalar n
Over(v, n) == [num |-> v, den |-> n]

\* the sort orders torch.sort(descending=True) may return: every permutation
\* (0-based values) that lists lens in non-increasing order
SortOrders(lens) ==
    LET n == Len(lens)
    IN  {p \in [1..n -> 0..(n - 1)] :
            /\ \A a, b \in 1..n : a # b => p[a] # p[b]
            /\ \A a \in 1..(n - 1) : lens[p[a] + 1] >= lens[p[a + 1] + 1]}

\* t.index_select(0, order)
index_select(t, order) == [j \in 1..Len(order) |-> t[order[j] + 1]]

\* the unsort that reuses the sort permutation instead of sorting it
ArgSort_same(order) == order

\* `_, idx = order.sort()` for a permutation: idx[v] is the position of v
ArgSort(order) ==
    [v \in 1..Len(order) |->
        (CHOOSE j \in 1..Len(order) : order[j] = v - 1) - 1]

-----------------------------------------------------------------------------
(* State of one call of Code2SeqEncoder.forward *)

VARIABLES
    samples,             \* the sample list of the batch (unpadded streams)
    pc,                  \* position in forward
    start_leaf_tokens, start_leaf_lengths,
    end_leaf_tokens, end_leaf_lengths,
    path_tokens, path_lengths,
    split_inds, start_leaf_inds, end_leaf_inds, path_inds,
    start_leaf_seqs, start_leaf_mask,
    end_leaf_seqs, end_leaf_mask,
    path_seqs, path_lens,
    start_leaf_sums, end_leaf_sums,
    sort_order, h_n, z,
    i, cur_max, output_sums,
    result,              \* the returned dict, None before the return
    \* collate of a sample list (SpecCollate)
    cpc,                 \* position: "gather", "returned", "split"
    dicts,               \* pad ids of the source, leaf and path dictionaries
    input_feeding,       \* the input_feeding argument of collate
    items,               \* the sample list handed to collate
    collate_order,       \* the local sort_order of collate
    batch,               \* the dict collate returned
    split_out,           \* the three _split_seq results on the batch
    \* code2seq_to_fairseq (SpecConvert)
    input_lines,         \* the lines of input_file read so far
    src_file, trg_file, leaf_file, path_file,
    \* one call of _truncate_seqs (SpecTruncate)
    tr_args, tr_out,
    \* FConvMultiContextEncoder.forward (SpecMulti)
    mpc,                 \* position: "input", "primary", "context", "done"
    src_tokens,          \* the padded source batch
    src_output,          \* what input_encoder.forward returned
    ctx_output,          \* what context_encoder.forward returned
    multi_out,           \* the returned dict
    \* LanguagePairWithMultiContextDataset.__getitem__ (SpecGetItem)
    gpc,                 \* position: "idle", "called", "returned", "raised"
    dataset,             \* the entries of the dataset at index, its flags
    index,               \* the argument of __getitem__
    sample,              \* the returned dict
    \* FConvContextEncoder.forward (SpecContext)
    ctx_calls,           \* a first and a later call: arguments and result
    \* FConvDecoder over the steps of one decoding (SpecDecoder)
    dpc,                 \* "idle", then the latest call: "forward", "reorder"
    dsteps,              \* number of calls made
    incremental_state,   \* None or the dict shared by the steps
    encoder_out_given,   \* encoder_out_dict['encoder_out'] of the latest forward
    encoder_ab,          \* (encoder_a, encoder_b) of the latest forward
    new_order,           \* new_order of the latest reorder_incremental_state
    \* several calls of Code2SeqEncoder.forward on one encoder (SpecAgain)
    phase,               \* the call under way: "first", "between", "again"
    first_call           \* the batch and the outcome of the first call

inputs == <<start_leaf_tokens, start_leaf_lengths, end_leaf_tokens,
            end_leaf_lengths, path_tokens, path_lengths>>
indexing == <<split_inds, start_leaf_inds, end_leaf_inds, path_inds>>
flat == <<start_leaf_seqs, start_leaf_mask, end_leaf_seqs, end_leaf_mask,
          path_seqs, path_lens>>
encoded == <<start_leaf_sums, end_leaf_sums, sort_order, h_n>>
loop == <<i, cur_max, output_sums>>
forward_vars == <<samples, pc, inputs, indexing, flat, encoded, z, loop,
                  result>>
collate_vars == <<cpc, dicts, input_feeding, items, collate_order, batch,
                  split_out>>
convert_vars == <<input_lines, src_file, trg_file, leaf_file, path_file>>
truncate_vars == <<tr_args, tr_out>>
multi_vars == <<mpc, src_tokens, src_output, ctx_output, multi_out>>
getitem_vars == <<gpc, dataset, index, sample>>
\* the five components above, and the ones after them
base_vars == <<forward_vars, collate_vars, convert_vars, truncate_vars,
               multi_vars>>
context_vars == <<ctx_calls>>
decoder_vars == <<dpc, dsteps, incremental_state, encoder_out_given,
                  encoder_ab, new_order>>
again_vars == <<phase, first_call>>
later_vars == <<getitem_vars, context_vars, decoder_vars, again_vars>>
\* everything outside one call of Code2SeqEncoder.forward
others == <<collate_vars, convert_vars, truncate_vars, multi_vars, later_vars>>
vars == <<forward_vars, others>>

\* batch size: start_leaf_tokens.size()[0]
BatchSize == Len(start_leaf_tokens)

\* default_return
default_return ==
    [encoder_out |-> [r \in 1..BatchSize |-> Over(ZeroVec, 1)],
     encoder_padding_mask |-> None]

ForwardInit ==
    /\ samples = <<>>
    /\ pc = "collect"
    /\ start_leaf_tokens = None /\ start_leaf_lengths = None
    /\ end_leaf_tokens = None /\ end_leaf_lengths = None
    /\ path_tokens = None /\ path_lengths = None
    /\ split_inds = None /\ start_leaf_inds = None
    /\ end_leaf_inds = None /\ path_inds = None
    /\ start_leaf_seqs = None /\ start_leaf_mask = None
    /\ end_leaf_seqs = None /\ end_leaf_mask = None
    /\ path_seqs = None /\ path_lens = None
    /\ start_leaf_sums = None /\ end_leaf_sums = None
    /\ sort_order = None /\ h_n = None /\ z = None
    /\ i = 0 /\ cur_max = -1 /\ output_sums = None
    /\ result = None

\* nothing collated yet, the dictionaries sharing the pad id pad_idx
CollateInit ==
    /\ cpc = "gather"
    /\ dicts = [src |-> pad_idx, leaf |-> leaf_pad, path |-> path_pad]
    /\ input_feeding = TRUE
    /\ items = <<>>
    /\ collate_order = None /\ batch = None /\ split_out = None

\* the input file not read yet, the four output files opened for writing
ConvertInit ==
    /\ input_lines = <<>>
    /\ src_file = <<>> /\ trg_file = <<>>
    /\ leaf_file = <<>> /\ path_file = <<>>

\* no call of _truncate_seqs under way
TruncateInit == tr_args = None /\ tr_out = None

\* no call of FConvMultiContextEncoder.forward under way
MultiInit ==
    /\ mpc = "input"
    /\ src_tokens = None /\ src_output = None
    /\ ctx_output = None /\ multi_out = None

\* no call of __getitem__ under way
GetItemInit ==
    /\ gpc = "idle"
    /\ dataset = None /\ index = None /\ sample = None

\* no call of FConvContextEncoder.forward made yet
ContextInit == ctx_calls = <<>>

\* no decoding under way
DecoderInit ==
    /\ dpc = "idle" /\ dsteps = 0
    /\ incremental_state = None
    /\ encoder_out_given = None /\ encoder_ab = None /\ new_order = None

\* no earlier call of Code2SeqEncoder.forward on the encoder
AgainInit == phase = "first" /\ first_call = None

LaterInit == GetItemInit /\ ContextInit /\ DecoderInit /\ AgainInit

Init ==
    /\ ForwardInit
    /\ CollateInit
    /\ ConvertInit
    /\ TruncateInit
    /\ MultiInit
    /\ LaterInit

-----------------------------------------------------------------------------
(* The batch handed to the encoder *)

\* One more sample {start_leaf, end_leaf, path} (the context fields of what
\* __getitem__ returns) joins the list that will be collated: any three
\* streams, while the batch holds at most MaxTok tokens.
AddSample ==
    /\ pc = "collect"
    /\ Len(samples) < MaxB
    /\ \E ls \in 0..(MaxTok - TotalSize(samples)) :
       \E le \in 0..(MaxTok - TotalSize(samples) - ls) :
       \E lp \in 0..(MaxTok - TotalSize(samples) - ls - le) :
       \E s \in [1..ls -> LeafAlphabet] :
       \E e \in [1..le -> LeafAlphabet] :
       \E p \in [1..lp -> PathAlphabet] :
            samples' = Append(samples,
                              [start_leaf |-> s, end_leaf |-> e, path |-> p])
    /\ UNCHANGED <<pc, inputs, indexing, flat, encoded, z, loop, result>>
    /\ UNCHANGED others

\* One more aligned sample joins a list of aligned samples: longer
\* streams, while the start-leaf streams hold at most MaxShape tokens.
AddAlignedSample ==
    /\ pc = "collect"
    /\ Len(samples) < MaxB
    /\ \A j \in 1..Len(samples) : Aligned(samples[j])
    /\ \E l \in 0..(MaxShape - ShapeSize(samples)) :
       \E shape \in [1..l -> BOOLEAN] :
            samples' = Append(samples, AlignedSample(shape))
    /\ UNCHANGED <<pc, inputs, indexing, flat, encoded, z, loop, result>>
    /\ UNCHANGED others

\* collate, for the three context streams with the default
\* left_pad_source=True: each stream left-padded to its own batch maximum,
\* with the unpadded lengths beside it.
Collate ==
    /\ pc = "collect"
    /\ Len(samples) >= 1
    /\ LET col(key) == [j \in 1..Len(samples) |-> samples[j][key]]
           lens(key) == [j \in 1..Len(samples) |-> Len(samples[j][key])]
       IN  /\ start_leaf_tokens' = collate_tokens(col("start_leaf"), pad_idx)
           /\ start_leaf_lengths' = lens("start_leaf")
           /\ end_leaf_tokens' = collate_tokens(col("end_leaf"), pad_idx)
           /\ end_leaf_lengths' = lens("end_leaf")
           /\ path_tokens' = collate_tokens(col("path"), pad_idx)
           /\ path_lengths' = lens("path")
    /\ pc' = "begin"
    /\ UNCHANGED <<samples, indexing, flat, encoded, z, loop, result>>
    /\ UNCHANGED others

-----------------------------------------------------------------------------
(* Code2SeqEncoder.forward, step by step *)

\* split_inds without the cumsum: the per-row counts behind a 0
SplitInds_no_cumsum(tokens) == <<0>> \o RowCounts(tokens, leaf_path)

\* split_inds = [0] ++ cumsum(leaf_split_mask.sum(1))
SplitInds(tokens) == <<0>> \o cumsum(RowCounts(tokens, leaf_path))

\* lines 606-611: the delimiter mask, the offset index, the three position
\* tables
Begin ==
    /\ pc = "begin"
    /\ split_inds' = SplitInds(start_leaf_tokens)
    /\ start_leaf_inds' = nonzero(start_leaf_tokens, leaf_path)
    /\ end_leaf_inds' = nonzero(end_leaf_tokens, leaf_path)
    /\ path_inds' = nonzero(path_tokens, path_path)
    /\ pc' = "validate"
    /\ UNCHANGED <<samples, inputs, flat, encoded, z, loop, result>>
    /\ UNCHANGED others

\* the validation without the comparison against the path stream
Rejected_ignoring_path ==
    \/ Len(start_leaf_inds) = 0
    \/ Len(end_leaf_inds) = 0
    \/ Len(path_inds) = 0
    \/ Column(start_leaf_inds, 0) # Column(end_leaf_inds, 0)

\* the validation comparing whole positions (row and column)
Rejected_by_position ==
    \/ Len(start_leaf_inds) = 0
    \/ Len(end_leaf_inds) = 0
    \/ Len(path_inds) = 0
    \/ start_leaf_inds # end_leaf_inds
    \/ start_leaf_inds # path_inds

\* the condition of the `if` at lines 613-615 (torch.equal is FALSE for
\* tensors of different sizes)
Rejected ==
    \/ Len(start_leaf_inds) = 0
    \/ Len(end_leaf_inds) = 0
    \/ Len(path_inds) = 0
    \/ Column(start_leaf_inds, 0) # Column(end_leaf_inds, 0)
    \/ Column(start_leaf_inds, 0) # Column(path_inds, 0)

\* lines 613-616: return default_return
Reject ==
    /\ pc = "validate"
    /\ Rejected
    /\ result' = default_return
    /\ pc' = "done"
    /\ UNCHANGED <<samples, inputs, indexing, flat, encoded, z, loop>>
    /\ UNCHANGED others

\* lines 618-624: the three _split_seq calls and the three truncations
SplitStreams ==
    /\ pc = "validate"
    /\ ~Rejected
    /\ LET s == _split_seq(start_leaf_tokens, start_leaf_lengths,
                           start_leaf_inds, split_inds)
           e == _split_seq(end_leaf_tokens, end_leaf_lengths,
                           end_leaf_inds, split_inds)
           p == _split_seq(path_tokens, path_lengths, path_inds, split_inds)
           st == _truncate_seqs(max_leaf_positions, s.padded, None, s.mask)
           et == _truncate_seqs(max_leaf_positions, e.padded, None, e.mask)
           pt == _truncate_seqs(max_path_positions, p.padded, p.seq_lengths,
                                None)
       IN  /\ start_leaf_seqs' = st.seqs
           /\ start_leaf_mask' = st.seq_masks
           /\ end_leaf_seqs' = et.seqs
           /\ end_leaf_mask' = et.seq_masks
           /\ path_seqs' = pt.seqs
           /\ path_lens' = pt.seq_lens
    /\ pc' = "embed"
    /\ UNCHANGED <<samples, inputs, indexing, encoded, z, loop, result>>
    /\ UNCHANGED others

\* lines 626-630: masked leaf sums and the path embedding
LeafSums ==
    /\ pc = "embed"
    /\ start_leaf_sums' = MaskedEmbeddingSum(start_leaf_seqs, start_leaf_mask)
    /\ end_leaf_sums' = MaskedEmbeddingSum(end_leaf_seqs, end_leaf_mask)
    /\ path_seqs' = PathEmbedding(path_seqs)
    /\ pc' = "encode"
    /\ UNCHANGED <<samples, inputs, indexing, start_leaf_seqs, start_leaf_mask,
                   end_leaf_seqs, end_leaf_mask, path_lens, sort_order, h_n,
                   z, loop, result>>
    /\ UNCHANGED others

\* pack_padded_sequence raises when a length is <= 0
PackRaises(lens) == \E j \in 1..Len(lens) : lens[j] <= 0

\* lines 632-642, when pack_padded_sequence raises: the call ends with the
\* exception and no result
EncodeRaise ==
    /\ pc = "encode"
    /\ PackRaises(path_lens)
    /\ pc' = "raised"
    /\ UNCHANGED <<samples, inputs, indexing, flat, encoded, z, loop, result>>
    /\ UNCHANGED others

\* lines 632-642: sort by length, run the BiLSTM on the packed rows, unsort
EncodePaths ==
    /\ pc = "encode"
    /\ ~PackRaises(path_lens)
    /\ \E order \in SortOrders(path_lens) :
        LET sorted_lens == index_select(path_lens, order)
            sorted_seqs == index_select(path_seqs, order)
            hidden == [j \in 1..Len(sorted_seqs) |->
                        LstmFinalState(sorted_seqs[j], sorted_lens[j])]
            inverse == ArgSort(order)
        IN  /\ path_lens' = sorted_lens
            /\ path_seqs' = sorted_seqs
            /\ sort_order' = inverse
            /\ h_n' = index_select(hidden, inverse)
    /\ pc' = "fuse"
    /\ UNCHANGED <<samples, inputs, indexing, start_leaf_seqs, start_leaf_mask,
                   end_leaf_seqs, end_leaf_mask, start_leaf_sums,
                   end_leaf_sums, z, loop, result>>
    /\ UNCHANGED others

\* a fusion step that also rebases split_inds to flat rows
Fuse_rebasing_split_inds ==
    /\ pc = "fuse"
    /\ z' = [j \in 1..Len(h_n) |->
                FuseRow(h_n[j], start_leaf_sums[j], end_leaf_sums[j])]
    /\ output_sums' = <<>>
    /\ cur_max' = -1
    /\ i' = 0
    /\ pc' = "loop"
    /\ split_inds' = [k \in 1..Len(split_inds) |-> split_inds[k] + k - 1]
    /\ UNCHANGED <<samples, inputs, start_leaf_inds, end_leaf_inds, path_inds,
                   flat, encoded, result>>
    /\ UNCHANGED others

\* Fuse that starts the loop from the cur_max an earlier call left
Fuse_keeping_cur_max ==
    /\ pc = "fuse"
    /\ z' = [j \in 1..Len(h_n) |->
                FuseRow(h_n[j], start_leaf_sums[j], end_leaf_sums[j])]
    /\ output_sums' = <<>>
    /\ cur_max' = IF phase = "first" THEN -1 ELSE cur_max
    /\ i' = 0
    /\ pc' = "loop"
    /\ UNCHANGED <<samples, inputs, indexing, flat, encoded, result>>
    /\ UNCHANGED others

\* lines 644-647: z, and the initial values of the aggregation loop
Fuse ==
    /\ pc = "fuse"
    /\ z' = [j \in 1..Len(h_n) |->
                FuseRow(h_n[j], start_leaf_sums[j], end_leaf_sums[j])]
    /\ output_sums' = <<>>
    /\ cur_max' = -1
    /\ i' = 0
    /\ pc' = "loop"
    /\ UNCHANGED <<samples, inputs, indexing, flat, encoded, result>>
    /\ UNCHANGED others

\* lines 650-652: the branch start != end of one loop iteration
MeanOf(zz, start, end, k) ==
    Over(VecSum([j \in 1..Len(PySlice(zz, start + k, end + k + 1)) |->
                    SetToBag({PySlice(zz, start + k, end + k + 1)[j]})]),
         end - start)

\* the fallback reading z at the cur_max of before the increment (z[-1] is
\* the last row)
FallbackOf_stale(zz, cm) ==
    Over(SetToBag({zz[IF cm = 0 THEN Len(zz) ELSE cm]}), 1)

\* lines 653-655: the branch start == end: z[cur_max] for the new cur_max
FallbackOf(zz, cm) == Over(SetToBag({zz[cm + 1]}), 1)

\* an iteration whose start == end branch reads the row after cur_max
\* without advancing cur_max
AggregateStep_keeping_cur_max ==
    /\ pc = "loop"
    /\ i < BatchSize
    /\ LET start == split_inds[i + 1]
           end == split_inds[i + 2]
       IN  IF start # end
           THEN /\ cur_max' = end + i
                /\ output_sums' = Append(output_sums, MeanOf(z, start, end, i))
                /\ pc' = "loop"
           ELSE /\ cur_max' = cur_max
                /\ IF cur_max + 1 < Len(z)
                   THEN /\ output_sums' = Append(output_sums,
                                                 FallbackOf(z, cur_max + 1))
                        /\ pc' = "loop"
                   ELSE /\ output_sums' = output_sums
                        /\ pc' = "raised"
    /\ i' = i + 1
    /\ UNCHANGED <<samples, inputs, indexing, flat, encoded, z, result>>
    /\ UNCHANGED others

\* lines 648-655: one iteration of the aggregation loop
AggregateStep ==
    /\ pc = "loop"
    /\ i < BatchSize
    /\ LET start == split_inds[i + 1]
           end == split_inds[i + 2]
       IN  IF start # end
           THEN /\ cur_max' = end + i
                /\ output_sums' = Append(output_sums, MeanOf(z, start, end, i))
                /\ pc' = "loop"
           ELSE /\ cur_max' = cur_max + 1
                /\ IF cur_max + 1 < Len(z)
                   THEN /\ output_sums' = Append(output_sums,
                                                 FallbackOf(z, cur_max + 1))
                        /\ pc' = "loop"
                   ELSE /\ output_sums' = output_sums
                        /\ pc' = "raised"
    /\ i' = i + 1
    /\ UNCHANGED <<samples, inputs, indexing, flat, encoded, z, result>>
    /\ UNCHANGED others

\* lines 657-662: stack the per-example vectors and return
Return ==
    /\ pc = "loop"
    /\ i = BatchSize
    /\ result' = [encoder_out |-> output_sums, encoder_padding_mask |-> None]
    /\ pc' = "done"
    /\ UNCHANGED <<samples, inputs, indexing, flat, encoded, z, loop>>
    /\ UNCHANGED others

Next ==
    \/ AddSample
    \/ AddAlignedSample
    \/ Collate
    \/ Begin
    \/ Reject
    \/ SplitStreams
    \/ LeafSums
    \/ EncodeRaise
    \/ EncodePaths
    \/ Fuse
    \/ AggregateStep
    \/ Return

Spec == Init /\ [][Next]_vars

-----------------------------------------------------------------------------
(* collate: from a sample list to the batch dict *)

\* the ids a dictionary may give its pad symbol
PadIds == {0, pad_idx}

\* the dataset indices a sample may carry as its id
ItemIds == 0..(MaxB - 1)

\* collate(left_pad_source=True)
left_pad_source == TRUE
\* collate(left_pad_target=False)
left_pad_target == FALSE

\* tokens of one sample: source, target and start-leaf stream
ItemSize(it) ==
    Len(it.source) + Len(it.start_leaf)
        + (IF it.target = None THEN 0 ELSE Len(it.target))

RECURSIVE ItemsSize(_)
ItemsSize(ss) == IF ss = <<>> THEN 0 ELSE ItemSize(Head(ss)) + ItemsSize(Tail(ss))

\* merge(key, left_pad, move_eos_to_beginning): collate_tokens of the key
\* field of every sample, each row at the right end (left_pad) or the left
\* end of a row of pad symbols of the batch maximum width; with
\* move_eos_to_beginning the final eos of a row is moved to its front
merge(ss, pad, eos, key, left_pad, move_eos_to_beginning) ==
    LET values == [j \in 1..Len(ss) |-> ss[j][key]]
        W == SetMax({Len(values[j]) : j \in 1..Len(values)})
        row(v) == IF move_eos_to_beginning
                  THEN <<eos>> \o SubSeq(v, 1, Len(v) - 1)
                  ELSE v
        fill(n) == [k \in 1..n |-> pad]
    IN  [j \in 1..Len(values) |->
            IF left_pad THEN fill(W - Len(values[j])) \o row(values[j])
            ELSE row(values[j]) \o fill(W - Len(values[j]))]

\* the lengths of a stream left in the order of the sample list
stream_lengths_unsorted(ss, key, order) ==
    [j \in 1..Len(ss) |-> Len(ss[j][key])]

\* LongTensor([s[key].numel() for s in samples]) selected with sort_order
stream_lengths(ss, key, order) ==
    index_select([j \in 1..Len(ss) |-> Len(ss[j][key])], order)

\* a batch dict that has a target entry only when there is a target
batch_dict_optional_target(id, ntokens, net_input, target, nsentences) ==
    IF target = None
    THEN [id |-> id, ntokens |-> ntokens, net_input |-> net_input,
          nsentences |-> nsentences]
    ELSE [id |-> id, ntokens |-> ntokens, net_input |-> net_input,
          target |-> target, nsentences |-> nsentences]

\* lines 69-84: the dict literal
batch_dict(id, ntokens, net_input, target, nsentences) ==
    [id |-> id, ntokens |-> ntokens, net_input |-> net_input,
     target |-> target, nsentences |-> nsentences]

\* the token count taken from the sources whether or not there are targets
ntokens_of_sources(ss) ==
    SumUpTo([j \in 1..Len(ss) |-> Len(ss[j].source)], Len(ss))

\* lines 52-55, 66-67: ntokens, the target lengths summed when the first
\* sample has a target, the source lengths summed otherwise
ntokens_of(ss) ==
    IF ss[1].target # None
    THEN SumUpTo([j \in 1..Len(ss) |-> Len(ss[j].target)], Len(ss))
    ELSE SumUpTo([j \in 1..Len(ss) |-> Len(ss[j].source)], Len(ss))

\* collate(samples, pad_idx, eos_idx, left_pad_source, left_pad_target,
\* input_feeding), for the sort order `order` src_lengths.sort returned
collate(ss, pad, eos, feeding, order) ==
    IF Len(ss) = 0 THEN <<>>
    ELSE
    LET sel(t) == index_select(t, order)
        src_lens == [j \in 1..Len(ss) |-> Len(ss[j].source)]
        has_target == ss[1].target # None
        target == IF has_target
                  THEN sel(merge(ss, pad, eos, "target", left_pad_target, FALSE))
                  ELSE None
        prev_output_tokens ==
            IF has_target /\ feeding
            THEN sel(merge(ss, pad, eos, "target", left_pad_target, TRUE))
            ELSE None
        net_input ==
            [src_tokens |->
                sel(merge(ss, pad, eos, "source", left_pad_source, FALSE)),
             src_lengths |-> stream_lengths(ss, "source", order),
             start_leaf_tokens |->
                sel(merge(ss, pad, eos, "start_leaf", left_pad_source, FALSE)),
             start_leaf_lengths |-> stream_lengths(ss, "start_leaf", order),
             end_leaf_tokens |->
                sel(merge(ss, pad, eos, "end_leaf", left_pad_source, FALSE)),
             end_leaf_lengths |-> stream_lengths(ss, "end_leaf", order),
             path_tokens |->
                sel(merge(ss, pad, eos, "path", left_pad_source, FALSE)),
             path_lengths |-> stream_lengths(ss, "path", order)]
    IN  batch_dict(sel([j \in 1..Len(ss) |-> ss[j].id]),
                   ntokens_of(ss),
                   IF prev_output_tokens # None
                   THEN net_input @@ ("prev_output_tokens" :> prev_output_tokens)
                   ELSE net_input,
                   target,
                   Len(ss[1].source))

\* the dictionaries of SpecCollate: the source dictionary pads with
\* pad_idx, the leaf and the path dictionary with any pad id
InitCollate ==
    /\ ForwardInit /\ ConvertInit /\ TruncateInit /\ MultiInit /\ LaterInit
    /\ cpc = "gather"
    /\ dicts \in [src : {pad_idx}, leaf : PadIds, path : PadIds]
    /\ input_feeding = TRUE
    /\ items = <<>>
    /\ collate_order = None /\ batch = None /\ split_out = None

\* One more sample as __getitem__ returns it joins the list: an unused id,
\* a source, a target ending in eos (or None, as for the first sample) and
\* three context streams of one shape.
AddItem ==
    /\ cpc = "gather"
    /\ Len(items) < MaxB
    /\ \E id \in ItemIds \ {items[j].id : j \in 1..Len(items)} :
       \E ls \in 1..(MaxItemTok - ItemsSize(items)) :
       \E lt \in 0..(MaxItemTok - ItemsSize(items) - ls) :
       \E l \in 0..(MaxItemTok - ItemsSize(items) - ls - lt) :
       \E shape \in [1..l -> BOOLEAN] :
            /\ Len(items) > 0 => ((lt = 0) <=> (items[1].target = None))
            /\ items' = Append(items,
                    [id |-> id,
                     source |-> [k \in 1..ls |-> src_word],
                     target |-> IF lt = 0 THEN None
                                ELSE [k \in 1..lt |->
                                        IF k = lt THEN eos_idx ELSE tgt_word]]
                    @@ AlignedSample(shape))
    /\ UNCHANGED <<cpc, dicts, input_feeding, collate_order, batch, split_out>>
    /\ UNCHANGED <<forward_vars, convert_vars, truncate_vars, multi_vars, later_vars>>

\* collater calls collate on the list, with the pad and eos of the source
\* dictionary; the sort of line 40 returns any order that lists the source
\* lengths non-increasingly.
CollateCall ==
    /\ cpc = "gather"
    /\ \E feeding \in BOOLEAN :
       \E order \in SortOrders([j \in 1..Len(items) |-> Len(items[j].source)]) :
            /\ input_feeding' = feeding
            /\ collate_order' = IF Len(items) = 0 THEN None ELSE order
            /\ batch' = collate(items, dicts.src, eos_idx, feeding, order)
    /\ cpc' = "returned"
    /\ UNCHANGED <<dicts, items, split_out>>
    /\ UNCHANGED <<forward_vars, convert_vars, truncate_vars, multi_vars, later_vars>>

\* fconv.py lines 606-620 on the collated batch, when it passes the
\* validation: the three _split_seq calls of an encoder built from the
\* dictionaries
SplitCollated ==
    /\ cpc = "returned"
    /\ Len(items) > 0
    /\ LET net == batch.net_input
           sinds == SplitInds(net.start_leaf_tokens)
           si == nonzero(net.start_leaf_tokens, leaf_path)
           ei == nonzero(net.end_leaf_tokens, leaf_path)
           pi == nonzero(net.path_tokens, path_path)
       IN  /\ Len(si) # 0 /\ Len(ei) # 0 /\ Len(pi) # 0
           /\ Column(si, 0) = Column(ei, 0)
           /\ Column(si, 0) = Column(pi, 0)
           /\ split_out' =
                [start_leaf |-> _split_seq_of(dicts.leaf, net.start_leaf_tokens,
                                              net.start_leaf_lengths, si, sinds),
                 end_leaf |-> _split_seq_of(dicts.leaf, net.end_leaf_tokens,
                                            net.end_leaf_lengths, ei, sinds),
                 path |-> _split_seq_of(dicts.leaf, net.path_tokens,
                                        net.path_lengths, pi, sinds)]
    /\ cpc' = "split"
    /\ UNCHANGED <<dicts, input_feeding, items, collate_order, batch>>
    /\ UNCHANGED <<forward_vars, convert_vars, truncate_vars, multi_vars, later_vars>>

NextCollate ==
    \/ AddItem
    \/ CollateCall
    \/ SplitCollated

SpecCollate == InitCollate /\ [][NextCollate]_vars

-----------------------------------------------------------------------------
(* code2seq_to_fairseq: strings are sequences of one-character strings *)

\* the characters str.strip() removes
Whitespace == {" ", "\n"}

\* str.strip()
RECURSIVE strip(_)
strip(s) ==
    IF s = <<>> THEN s
    ELSE IF Head(s) \in Whitespace THEN strip(Tail(s))
    ELSE IF s[Len(s)] \in Whitespace THEN strip(SubSeq(s, 1, Len(s) - 1))
    ELSE s

\* str.split(sep) for a one-character sep: one more piece than there are
\* occurrences of sep, empty pieces included
RECURSIVE split(_, _)
split(s, sep) ==
    IF \A k \in 1..Len(s) : s[k] # sep THEN <<s>>
    ELSE LET k == CHOOSE k \in 1..Len(s) :
                    s[k] = sep /\ \A m \in 1..(k - 1) : s[m] # sep
         IN  <<SubSeq(s, 1, k - 1)>> \o split(SubSeq(s, k + 1, Len(s)), sep)

\* sep.join(pieces)
RECURSIVE join(_, _)
join(sep, pieces) ==
    IF pieces = <<>> THEN <<>>
    ELSE IF Len(pieces) = 1 THEN pieces[1]
    ELSE pieces[1] \o <<sep>> \o join(sep, Tail(pieces))

\* a line that is dropped only when it has fewer than 2 fields
skipped_under_two(line) == Len(line) < 2

\* line 17: the line is skipped
skipped(line) == Len(line) < 3

\* a tuple that is kept as soon as it has 2 parts
kept_from_two(path) == Len(path) >= 2

\* line 25, negated: the path tuple is kept
kept(path) == Len(path) >= 3

\* lines 16-32 for one line of the input file: None when the line is
\* skipped, else the four lines written (without their final newline)
convert(text) ==
    LET line == split(strip(text), " ")
    IN  IF skipped(line) THEN None
        ELSE
        LET tuples == [k \in 1..(Len(line) - 2) |->
                            split(strip(line[k + 2]), "|")]
            good == SelectSeq(tuples, kept)
            leaves == [k \in 1..Len(good) |->
                            join("|", <<good[k][1], good[k][Len(good[k])]>>)]
            paths == [k \in 1..Len(good) |->
                            join("|", SubSeq(good[k], 2, Len(good[k]) - 1))]
        IN  [src |-> join(" ", split(line[2], "|")),
             trg |-> join(" ", split(line[1], "|")),
             leaf |-> join(" ", leaves),
             path |-> join(" ", paths)]

\* the letter of the k-th part of a line
Letter(k) == <<"a", "b", "c", "d", "e", "f", "g", "h">>[((k - 1) % 8) + 1]

\* number of parts of a line of text
PartsOf(text) ==
    Cardinality({k \in 1..Len(text) : text[k] \in {" ", "|"}}) + 1

RECURSIVE PartsRead(_)
PartsRead(lines) ==
    IF lines = <<>> THEN 0 ELSE PartsOf(Head(lines)) + PartsRead(Tail(lines))

\* the lines the input file may hold next: n parts, each one letter or
\* empty, with a space or a pipe between consecutive parts, and the newline
NextLines ==
    UNION {
        {Flatten([k \in 1..n |->
                    (IF blank[k] THEN <<>> ELSE <<Letter(k)>>)
                        \o (IF k < n THEN <<seps[k]>> ELSE <<"\n">>)]) :
            seps \in [1..(n - 1) -> {" ", "|"}], blank \in [1..n -> BOOLEAN]} :
        n \in 1..(MaxParts - PartsRead(input_lines))}

\* lines 15-18: the next line has fewer than 3 fields: continue
SkipLine ==
    /\ \E text \in NextLines :
            /\ convert(text) = None
            /\ input_lines' = Append(input_lines, text)
    /\ UNCHANGED <<src_file, trg_file, leaf_file, path_file>>
    /\ UNCHANGED <<forward_vars, collate_vars, truncate_vars, multi_vars, later_vars>>

\* lines 15-32: the next line is converted and one line is written to each
\* of the four files
WriteLine ==
    /\ \E text \in NextLines :
            /\ convert(text) # None
            /\ input_lines' = Append(input_lines, text)
            /\ src_file' = Append(src_file, convert(text).src)
            /\ trg_file' = Append(trg_file, convert(text).trg)
            /\ leaf_file' = Append(leaf_file, convert(text).leaf)
            /\ path_file' = Append(path_file, convert(text).path)
    /\ UNCHANGED <<forward_vars, collate_vars, truncate_vars, multi_vars, later_vars>>

NextConvert ==
    \/ SkipLine
    \/ WriteLine

SpecConvert == Init /\ [][NextConvert]_vars

-----------------------------------------------------------------------------
(* FConvMultiContextEncoder.forward *)

\* the call: a source batch as collate builds it, rows left-padded with
\* the pad of the source dictionary and sorted by descending length
MultiCall ==
    /\ mpc = "input"
    /\ src_tokens = None
    /\ \E B \in 1..MaxB :
       \E lens \in [1..B -> 1..MaxSrcLen] :
            /\ \A b \in 1..(B - 1) : lens[b] >= lens[b + 1]
            /\ src_tokens' = collate_tokens([b \in 1..B |->
                                                [k \in 1..lens[b] |-> src_word]],
                                            pad_idx)
    /\ UNCHANGED <<mpc, src_output, ctx_output, multi_out>>
    /\ UNCHANGED <<forward_vars, collate_vars, convert_vars, truncate_vars, later_vars>>

\* encoder_padding_mask of FConvEncoder.forward (lines 423-425, 464): the
\* positions holding padding_idx, None when there is none
primary_mask(tokens) ==
    IF \A b \in 1..Len(tokens) : \A t \in 1..Len(tokens[b]) :
            tokens[b][t] # pad_idx
    THEN None
    ELSE [b \in 1..Len(tokens) |->
            [t \in 1..Len(tokens[b]) |-> tokens[b][t] = pad_idx]]

\* line 555: FConvEncoder.forward(src_tokens, src_lengths): x is 0 at the
\* masked positions and a vector of its own at every other position, y is
\* a vector of its own at every position
PrimaryForward ==
    /\ mpc = "input"
    /\ src_tokens # None
    /\ src_output' =
            [encoder_out |->
                <<[b \in 1..Len(src_tokens) |->
                    [t \in 1..Len(src_tokens[b]) |->
                        IF src_tokens[b][t] = pad_idx THEN ZeroVec
                        ELSE SetToBag({<<"x", b - 1, t - 1>>})]],
                  [b \in 1..Len(src_tokens) |->
                    [t \in 1..Len(src_tokens[b]) |->
                        SetToBag({<<"y", b - 1, t - 1>>})]]>>,
             encoder_padding_mask |-> primary_mask(src_tokens)]
    /\ mpc' = "primary"
    /\ UNCHANGED <<src_tokens, ctx_output, multi_out>>
    /\ UNCHANGED <<forward_vars, collate_vars, convert_vars, truncate_vars, later_vars>>

\* line 556: Code2SeqEncoder.forward returns one vector per example: the
\* zero sentinel for every row, or a vector of its own for every row
ContextForward ==
    /\ mpc = "primary"
    /\ \E sentinel \in BOOLEAN :
            ctx_output' =
                [encoder_out |->
                    [b \in 1..Len(src_tokens) |->
                        IF sentinel THEN ZeroVec
                        ELSE SetToBag({<<"ctx", b - 1>>})],
                 encoder_padding_mask |-> None]
    /\ mpc' = "context"
    /\ UNCHANGED <<src_tokens, src_output, multi_out>>
    /\ UNCHANGED <<forward_vars, collate_vars, convert_vars, truncate_vars, later_vars>>

\* line 556, when Code2SeqEncoder.forward raises: the call ends with the
\* exception
ContextRaise ==
    /\ mpc = "primary"
    /\ mpc' = "raised"
    /\ UNCHANGED <<src_tokens, src_output, ctx_output, multi_out>>
    /\ UNCHANGED <<forward_vars, collate_vars, convert_vars, truncate_vars, later_vars>>

\* the context vector of the first example behind every row
append_context_of_first(x, ctx) ==
    [b \in 1..Len(x) |-> x[b] \o <<ctx[1]>>]

\* torch.cat([x, ctx.view((batch_size, 1, embed_dim))], 1)
append_context(x, ctx) ==
    [b \in 1..Len(x) |-> x[b] \o <<ctx[b]>>]

\* torch.cat((mask, torch.zeros(batch_size, 1).byte()), 1)
append_unmasked(mask) ==
    [b \in 1..Len(mask) |-> mask[b] \o <<FALSE>>]

\* lines 557-567: the returned dict
MultiReturn ==
    /\ mpc = "context"
    /\ multi_out' =
            [encoder_out |->
                <<append_context(src_output.encoder_out[1],
                                 ctx_output.encoder_out),
                  append_context(src_output.encoder_out[2],
                                 ctx_output.encoder_out)>>,
             encoder_padding_mask |->
                IF src_output.encoder_padding_mask = None THEN None
                ELSE append_unmasked(src_output.encoder_padding_mask)]
    /\ mpc' = "done"
    /\ UNCHANGED <<src_tokens, src_output, ctx_output>>
    /\ UNCHANGED <<forward_vars, collate_vars, convert_vars, truncate_vars, later_vars>>

NextMulti ==
    \/ MultiCall
    \/ PrimaryForward
    \/ ContextForward
    \/ ContextRaise
    \/ MultiReturn

SpecMulti == Init /\ [][NextMulti]_vars

-----------------------------------------------------------------------------
(* One call of _truncate_seqs on its own *)

\* the call: a flat tensor as _split_seq builds it (rows of real tokens
\* right-padded to the longest row), its lengths and its mask, either of
\* which may be None, and a maximum of at least 1
TruncateCall ==
    /\ tr_args = None
    /\ \E n \in 1..MaxRows :
       \E lens \in [1..n -> 0..MaxWidth] :
       \E max_length \in 1..MaxWidth :
       \E with_lens, with_masks \in BOOLEAN :
            LET padded == pad_sequence([j \in 1..n |->
                                          [c \in 1..lens[j] |-> leaf_word]],
                                       leaf_pad)
            IN  tr_args' =
                    [max_length |-> max_length,
                     seqs |-> padded,
                     seq_lens |-> IF with_lens THEN lens ELSE None,
                     seq_masks |-> IF with_masks
                                   THEN [j \in 1..n |->
                                           [c \in 1..Len(padded[j]) |->
                                               padded[j][c] # leaf_pad]]
                                   ELSE None]
    /\ UNCHANGED <<tr_out, forward_vars, collate_vars, convert_vars, multi_vars, later_vars>>

\* lines 680-688: the call returns
TruncateReturn ==
    /\ tr_args # None
    /\ tr_out = None
    /\ tr_out' = _truncate_seqs(tr_args.max_length, tr_args.seqs,
                                tr_args.seq_lens, tr_args.seq_masks)
    /\ UNCHANGED <<tr_args, forward_vars, collate_vars, convert_vars, multi_vars, later_vars>>

NextTruncate ==
    \/ TruncateCall
    \/ TruncateReturn

SpecTruncate == Init /\ [][NextTruncate]_vars

-----------------------------------------------------------------------------
(* LanguagePairWithMultiContextDataset.__getitem__ *)

\* torch.nonzero(item == sym) of a 1-D tensor: the 0-based positions of sym,
\* increasing
nonzero_1d(item, sym) ==
    SelectSeq([k \in 1..Len(item) |-> k - 1], LAMBDA q : item[q + 1] = sym)

\* the position of the last marker instead of the first
leaf_ind_last(leaf_item) ==
    nonzero_1d(leaf_item, leaf_leaf)[Len(nonzero_1d(leaf_item, leaf_leaf))]

\* line 155: ind = torch.nonzero(leaf_item == self.leaf_dict.leaf())[0]
leaf_ind(leaf_item) == nonzero_1d(leaf_item, leaf_leaf)[1]

\* line 155 raises IndexError: the [0] of an empty tensor
getitem_raises(leaf_item) == Len(nonzero_1d(leaf_item, leaf_leaf)) = 0

\* lines 163-166: the target item, with eos appended when the dataset was
\* built with append_eos_to_target and the target does not end in eos
tgt_item_of(ds) ==
    IF ds.append_eos_to_target /\ ds.tgt # None
       /\ ds.tgt[Len(ds.tgt)] # eos_idx
    THEN ds.tgt \o <<eos_idx>>
    ELSE ds.tgt

\* lines 168-171: the source item, without its final eos when the dataset
\* was built with remove_eos_from_source
src_item_of(ds) ==
    IF ds.remove_eos_from_source /\ ds.src[Len(ds.src)] = eos_idx
    THEN SubSeq(ds.src, 1, Len(ds.src) - 1)
    ELSE ds.src

\* lines 149-180: the dict __getitem__ returns when line 155 does not raise
__getitem__(ds, ix) ==
    LET ind == leaf_ind(ds.leaf)
    IN  [id |-> ix,
         source |-> src_item_of(ds),
         target |-> tgt_item_of(ds),
         start_leaf |-> PySlice(ds.leaf, 0, ind),
         end_leaf |-> PySlice(ds.leaf, ind + 1, Len(ds.leaf)),
         path |-> ds.path]

LeafItemAlphabet == {leaf_leaf, leaf_path, leaf_word}

\* __getitem__(index) is called on a dataset whose entry at index holds a
\* source, a target (None for a dataset without targets), a leaf item and a
\* path item
GetItemCall ==
    /\ gpc = "idle"
    /\ \E ix \in 0..(MaxB - 1) :
       \E src \in {<<src_word>>, <<src_word, eos_idx>>} :
       \E tgt \in {None, <<tgt_word>>, <<tgt_word, eos_idx>>} :
       \E append, remove \in BOOLEAN :
       \E ll \in 0..MaxEntryTok :
       \E lp \in 0..(MaxEntryTok - ll) :
       \E leaf \in [1..ll -> LeafItemAlphabet] :
       \E path \in [1..lp -> PathAlphabet] :
            /\ index' = ix
            /\ dataset' = [src |-> src, tgt |-> tgt, leaf |-> leaf,
                           path |-> path,
                           append_eos_to_target |-> append,
                           remove_eos_from_source |-> remove]
    /\ gpc' = "called"
    /\ UNCHANGED sample
    /\ UNCHANGED <<base_vars, context_vars, decoder_vars, again_vars>>

\* lines 149-180: the call returns its dict
GetItemReturn ==
    /\ gpc = "called"
    /\ ~getitem_raises(dataset.leaf)
    /\ sample' = __getitem__(dataset, index)
    /\ gpc' = "returned"
    /\ UNCHANGED <<dataset, index>>
    /\ UNCHANGED <<base_vars, context_vars, decoder_vars, again_vars>>

\* line 155: the call ends with IndexError
GetItemRaise ==
    /\ gpc = "called"
    /\ getitem_raises(dataset.leaf)
    /\ gpc' = "raised"
    /\ UNCHANGED <<dataset, index, sample>>
    /\ UNCHANGED <<base_vars, context_vars, decoder_vars, again_vars>>

NextGetItem ==
    \/ GetItemCall
    \/ GetItemReturn
    \/ GetItemRaise

SpecGetItem == Init /\ [][NextGetItem]_vars

-----------------------------------------------------------------------------
(* FConvContextEncoder.forward *)

\* the dropout masks the encoders draw in one call (lines 416, 442): none
\* in evaluation mode, one of several draws in training mode
Draws == {"none", "mask_a", "mask_b"}

\* lines 394-476: FConvEncoder.forward of the encoder named enc on a padded
\* batch, for the dropout masks it draws: x and y hold at position t of row b
\* a vector of its own for the row's tokens, the position and the masks
FConvEncoder_forward(enc, tokens, draw) ==
    [encoder_out |->
        <<[b \in 1..Len(tokens) |->
            [t \in 1..Len(tokens[b]) |->
                IF tokens[b][t] = pad_idx THEN <<ZeroVec>>
                ELSE <<SetToBag({<<enc, "x", tokens[b], t - 1, draw>>})>>]],
          [b \in 1..Len(tokens) |->
            [t \in 1..Len(tokens[b]) |->
                <<SetToBag({<<enc, "y", tokens[b], t - 1, draw>>})>>]]>>,
     encoder_padding_mask |-> primary_mask(tokens)]

\* the context batch handed to the context encoder
context_encoder_input_ctx(s_tokens, c_tokens) == c_tokens

\* line 510: the batch handed to the context encoder: src_tokens
context_encoder_input(s_tokens, c_tokens) == s_tokens

\* the sizes of a B x T x C tensor held as rows of positions: B and T
SizesOf(x) == <<Len(x), IF Len(x) = 0 THEN 0 ELSE Len(x[1])>>

\* torch.cat([a, c], 2) of two tensors of the same B and T
cat_dim2(a, c) ==
    [b \in 1..Len(a) |-> [t \in 1..Len(a[b]) |-> a[b][t] \o c[b][t]]]

\* what a call leaves behind that ends with torch's size-mismatch error
SizeMismatch == [raised |-> "RuntimeError"]

\* lines 508-519: FConvContextEncoder.forward; SizeMismatch when the sizes of
\* the two encoders' results do not fit (torch.cat, the mask product)
FConvContextEncoder_forward(s_tokens, s_lengths, c_tokens, c_lengths, draw) ==
    LET src_out == FConvEncoder_forward("input_encoder", s_tokens, draw)
        ctx_out == FConvEncoder_forward("context_encoder",
                        context_encoder_input(s_tokens, c_tokens), draw)
        src_mask == src_out.encoder_padding_mask
        ctx_mask == ctx_out.encoder_padding_mask
    IN  IF SizesOf(src_out.encoder_out[1]) # SizesOf(ctx_out.encoder_out[1])
        THEN SizeMismatch
        ELSE [encoder_out |->
                <<cat_dim2(src_out.encoder_out[1], ctx_out.encoder_out[1]),
                  cat_dim2(src_out.encoder_out[2], ctx_out.encoder_out[2])>>,
              encoder_padding_mask |->
                IF src_mask = None \/ ctx_mask = None THEN None
                ELSE [b \in 1..Len(src_mask) |->
                        [t \in 1..Len(src_mask[b]) |->
                            src_mask[b][t] /\ ctx_mask[b][t]]]]

\* One call of forward on a source batch and a context batch of the same
\* number of rows, both as collate builds them (left-padded with the pad of
\* the dictionary, the source rows by descending length).  The encoder is
\* followed for a first call and one later call.
ContextEncoderCall ==
    /\ Len(ctx_calls) \in {0, 1}
    /\ \E B \in 1..MaxB :
       \E s_lens \in [1..B -> 1..(MaxCallTok - 2 * B + 1)] :
       \E c_lens \in [1..B -> 1..(MaxCallTok - SumUpTo(s_lens, B) - B + 1)] :
       \E draw \in Draws :
            /\ SumUpTo(s_lens, B) + SumUpTo(c_lens, B) <= MaxCallTok
            /\ \A b \in 1..(B - 1) : s_lens[b] >= s_lens[b + 1]
            /\ LET s_tokens == collate_tokens(
                        [b \in 1..B |-> [k \in 1..s_lens[b] |-> src_word]],
                        pad_idx)
                   c_tokens == collate_tokens(
                        [b \in 1..B |-> [k \in 1..c_lens[b] |-> src_word]],
                        pad_idx)
               IN  ctx_calls' = ctx_calls
                        \o <<[src_tokens |-> s_tokens, src_lengths |-> s_lens,
                              ctx_tokens |-> c_tokens, ctx_lengths |-> c_lens,
                              draw |-> draw,
                              out |-> FConvContextEncoder_forward(
                                    s_tokens, s_lens, c_tokens, c_lens, draw)]>>
    /\ UNCHANGED <<base_vars, getitem_vars, decoder_vars, again_vars>>

NextContext == ContextEncoderCall

SpecContext == Init /\ [][NextContext]_vars

-----------------------------------------------------------------------------
(* FConvDecoder: the encoder output kept in incremental_state *)

\* an incremental_state that is a dict, holding the entries d
StateDict(d) == [dict |-> d]

\* utils.get_incremental_state(self, incremental_state, key): the entry of
\* this module under key, None without a dict or without the entry
get_incremental_state(state, key) ==
    IF state = None THEN None
    ELSE IF key \in DOMAIN state.dict THEN state.dict[key] ELSE None

\* utils.set_incremental_state(self, incremental_state, key, value): the
\* dict with the entry set, nothing without a dict
set_incremental_state(state, key, value) ==
    IF state = None THEN None
    ELSE StateDict([k \in DOMAIN state.dict \cup {key} |->
                        IF k = key THEN value ELSE state.dict[k]])

\* encoder_a.transpose(1, 2): B x T x C to B x C x T
transpose_1_2(a) ==
    [b \in 1..Len(a) |->
        [c \in 1..Len(a[b][1]) |->
            [t \in 1..Len(a[b]) |-> a[b][t][c]]]]

\* the split computed and stored again at every call
_split_encoder_out_uncached(encoder_out, state) ==
    LET computed == <<transpose_1_2(encoder_out[1]), encoder_out[2]>>
    IN  [result |-> computed,
         state |-> set_incremental_state(state, "encoder_out", computed)]

\* lines 948-964: _split_encoder_out: what it returns and the
\* incremental_state it leaves
_split_encoder_out(encoder_out, state) ==
    LET cached_result == get_incremental_state(state, "encoder_out")
        computed == <<transpose_1_2(encoder_out[1]), encoder_out[2]>>
    IN  IF cached_result # None
        THEN [result |-> cached_result, state |-> state]
        ELSE [result |-> computed,
              state |-> IF state # None
                        THEN set_incremental_state(state, "encoder_out", computed)
                        ELSE state]

\* lines 918-923: reorder_incremental_state: the incremental_state it leaves
reorder_incremental_state(state, order) ==
    LET encoder_out == get_incremental_state(state, "encoder_out")
    IN  IF encoder_out # None
        THEN set_incremental_state(state, "encoder_out",
                <<index_select(encoder_out[1], order),
                  index_select(encoder_out[2], order)>>)
        ELSE state

\* the encoder outputs a forward is given: the pair of B x T x C tensors of
\* one of two encoder runs, every element a value of its own
EncTags == {"first", "other"}
EncoderOut(tag, B) ==
    <<[b \in 1..B |-> [t \in 1..EncLen |-> [c \in 1..EncDim |->
            <<tag, "a", b - 1, t - 1, c - 1>>]]],
      [b \in 1..B |-> [t \in 1..EncLen |-> [c \in 1..EncDim |->
            <<tag, "b", b - 1, t - 1, c - 1>>]]]>>

\* a decoding starts: without incremental_state (training, scoring) or with
\* a fresh dict shared by its steps (generation)
DecoderBegin ==
    /\ dpc = "idle"
    /\ \E incremental \in BOOLEAN :
            incremental_state' = IF incremental THEN StateDict(<<>>) ELSE None
    /\ dpc' = "begun"
    /\ UNCHANGED <<dsteps, encoder_out_given, encoder_ab, new_order>>
    /\ UNCHANGED <<base_vars, getitem_vars, context_vars, again_vars>>

\* lines 843-849: forward is given an encoder_out_dict and splits its
\* encoder_out; the entries forward's other modules keep in the dict are
\* not followed
DecoderForward ==
    /\ dpc # "idle"
    /\ dsteps < MaxSteps
    /\ \E tag \in EncTags : \E B \in 1..MaxB :
        LET ret == _split_encoder_out(EncoderOut(tag, B), incremental_state)
        IN  /\ encoder_out_given' = EncoderOut(tag, B)
            /\ encoder_ab' = ret.result
            /\ incremental_state' = ret.state
    /\ dpc' = "forward"
    /\ dsteps' = dsteps + 1
    /\ UNCHANGED new_order
    /\ UNCHANGED <<base_vars, getitem_vars, context_vars, again_vars>>

\* lines 918-923: the generator reorders the state with row numbers of the
\* rows in hand
DecoderReorder ==
    /\ dpc # "idle"
    /\ dsteps < MaxSteps
    /\ LET stored == get_incremental_state(incremental_state, "encoder_out")
           rows == IF stored = None THEN MaxB ELSE Len(stored[1])
       IN  \E n \in 1..MaxB : \E order \in [1..n -> 0..(rows - 1)] :
            /\ new_order' = order
            /\ incremental_state' =
                    reorder_incremental_state(incremental_state, order)
    /\ dpc' = "reorder"
    /\ dsteps' = dsteps + 1
    /\ UNCHANGED <<encoder_out_given, encoder_ab>>
    /\ UNCHANGED <<base_vars, getitem_vars, context_vars, again_vars>>

NextDecoder ==
    \/ DecoderBegin
    \/ DecoderForward
    \/ DecoderReorder

SpecDecoder == Init /\ [][NextDecoder]_vars

-----------------------------------------------------------------------------
(* Several calls of Code2SeqEncoder.forward on one encoder *)

\* the shapes of l tokens with at most one delimiter
OneSplitShapes(l) == {[k \in 1..l |-> k = d] : d \in 0..l}

\* the lists of such shapes of cost at most c, a shape of l tokens costing
\* l + 1
RECURSIVE ShapeLists(_)
ShapeLists(c) ==
    {<<>>} \cup UNION {{<<sh>> \o rest : sh \in OneSplitShapes(l),
                                         rest \in ShapeLists(c - l - 1)} :
                       l \in 0..(c - 1)}

\* the batches of cost at most c the encoder is called with: sample lists
\* of aligned samples, in batch order
BatchesOf(c) ==
    {[j \in 1..Len(shapes) |-> AlignedSample(shapes[j])] :
        shapes \in ShapeLists(c) \ {<<>>}}

\* what a finished call left to its caller: the returned dict or the
\* exception
RaisedOutcome == [raised |-> TRUE]
OutcomeOf == IF pc = "raised" THEN RaisedOutcome ELSE result

\* line 600: forward is entered with the collated batch of the sample list
\* ss.  A new call binds its arguments; the values earlier calls gave the
\* locals are left where they are, so that a read of one before its
\* assignment in this call would see them.
Enter(ss) ==
    LET col(key) == [j \in 1..Len(ss) |-> ss[j][key]]
        lens(key) == [j \in 1..Len(ss) |-> Len(ss[j][key])]
    IN  /\ samples' = ss
        /\ start_leaf_tokens' = collate_tokens(col("start_leaf"), pad_idx)
        /\ start_leaf_lengths' = lens("start_leaf")
        /\ end_leaf_tokens' = collate_tokens(col("end_leaf"), pad_idx)
        /\ end_leaf_lengths' = lens("end_leaf")
        /\ path_tokens' = collate_tokens(col("path"), pad_idx)
        /\ path_lengths' = lens("path")
        /\ pc' = "begin"
        /\ result' = None
        /\ UNCHANGED <<indexing, flat, encoded, z, loop>>
        /\ UNCHANGED <<collate_vars, convert_vars, truncate_vars, multi_vars,
                       getitem_vars, context_vars, decoder_vars>>

\* the first call on the encoder
FirstCall ==
    /\ phase = "first"
    /\ pc = "collect"
    /\ \E ss \in BatchesOf(MaxAgainCost) : Enter(ss)
    /\ UNCHANGED <<phase, first_call>>

\* after the first call, a call on any other batch
BetweenCall ==
    /\ phase = "first"
    /\ pc \in {"done", "raised"}
    /\ \E ss \in BatchesOf(MaxAgainCost - 2) :
            /\ Enter(ss)
            /\ first_call' = [samples |-> samples, outcome |-> OutcomeOf,
                              between |-> ss]
    /\ phase' = "between"

\* a later call on the batch of the first call
AgainCall ==
    /\ phase \in {"first", "between"}
    /\ pc \in {"done", "raised"}
    /\ IF phase = "first"
       THEN /\ Enter(samples)
            /\ first_call' = [samples |-> samples, outcome |-> OutcomeOf,
                              between |-> None]
       ELSE /\ Enter(first_call.samples)
            /\ first_call' = first_call
    /\ phase' = "again"

NextAgain ==
    \/ FirstCall
    \/ BetweenCall
    \/ AgainCall
    \/ Begin
    \/ Reject
    \/ SplitStreams
    \/ LeafSums
    \/ EncodeRaise
    \/ EncodePaths
    \/ Fuse
    \/ AggregateStep
    \/ Return

SpecAgain == Init /\ [][NextAgain]_vars

-----------------------------------------------------------------------------
(* Reference notions the claims are stated with, computed from the sample   *)
(* list alone                                                               *)

\* number of occurrences of d in s
Count(s, d) == Cardinality({k \in 1..Len(s) : s[k] = d})

\* the maximal d-free runs of s, in order
RECURSIVE Runs(_, _)
Runs(s, d) ==
    IF Count(s, d) = 0 THEN <<s>>
    ELSE LET k == CHOOSE k \in 1..Len(s) :
                    s[k] = d /\ \A m \in 1..(k - 1) : s[m] # d
         IN  <<SubSeq(s, 1, k - 1)>> \o Runs(SubSeq(s, k + 1, Len(s)), d)

\* the runs joined again with one d between consecutive runs
RECURSIVE Join(_, _)
Join(rs, d) ==
    IF Len(rs) = 1 THEN rs[1] ELSE rs[1] \o <<d>> \o Join(Tail(rs), d)

\* sum of a sequence of integers
RECURSIVE Sum(_)
Sum(v) == IF v = <<>> THEN 0 ELSE Head(v) + Sum(Tail(v))

Streams == {"start_leaf", "end_leaf", "path"}
DelimOf(key) == IF key = "path" THEN path_path ELSE leaf_path
TokensOf(key) ==
    IF key = "start_leaf" THEN start_leaf_tokens
    ELSE IF key = "end_leaf" THEN end_leaf_tokens ELSE path_tokens
LengthsOf(key) ==
    IF key = "start_leaf" THEN start_leaf_lengths
    ELSE IF key = "end_leaf" THEN end_leaf_lengths ELSE path_lengths
IndsOf(key) ==
    IF key = "start_leaf" THEN start_leaf_inds
    ELSE IF key = "end_leaf" THEN end_leaf_inds ELSE path_inds

\* examples are numbered 0 .. B-1 as in the code
Examples == 0..(Len(samples) - 1)

\* number of delimiters of example e in stream key
Delims(e, key) == Count(samples[e + 1][key], DelimOf(key))

\* 0-based flat row of the first sub-sequence of example e, when every
\* example e' contributes Delims(e', "start_leaf") + 1 rows
RECURSIVE FlatStart(_)
FlatStart(e) ==
    IF e = 0 THEN 0 ELSE FlatStart(e - 1) + Delims(e - 1, "start_leaf") + 1

\* some example has different delimiter counts in its three streams
Mismatch ==
    \E e \in Examples :
        \/ Delims(e, "start_leaf") # Delims(e, "end_leaf")
        \/ Delims(e, "start_leaf") # Delims(e, "path")

\* some stream has no delimiter anywhere in the batch
SomeStreamWithoutDelimiter ==
    \E key \in Streams : \A e \in Examples : Delims(e, key) = 0

\* split_inds and the position tables have been computed
IndexBuilt == pc \notin {"collect", "begin"}
\* the validation has been decided
Decided == pc \notin {"collect", "begin", "validate"}
\* the batch passed the validation and the streams were split
Accepted == Decided /\ start_leaf_seqs # None
\* forward returned the aggregated vectors
ReturnedVectors == pc = "done" /\ Accepted

-----------------------------------------------------------------------------
(* C1 *)

\* the N fused vectors of the N instances of example e: its first
\* Delims(e) flat rows, without its trailing segment
InstanceVectors(e) ==
    [k \in 1..Delims(e, "start_leaf") |-> SetToBag({z[FlatStart(e) + k]})]

\* C1: in an accepted batch, the output of every example with N >= 1
\* delimiters is the mean of exactly the N fused vectors of its N instances;
\* the fused vector of its trailing segment is not part of the sum.
C1_MeanOfInstances ==
    ReturnedVectors =>
        \A e \in Examples :
            Delims(e, "start_leaf") >= 1 =>
                result.encoder_out[e + 1] =
                    Over(VecSum(InstanceVectors(e)), Delims(e, "start_leaf"))

-----------------------------------------------------------------------------
(* C2 *)

-----------------------------------------------------------------------------
(* C3 *)

\* C3: when some example has different delimiter counts in its three
\* streams, forward returns the B x embed_dim zero tensor with
\* encoder_padding_mask None for the whole batch, and does not raise.
C3_MismatchGivesSentinel ==
    (Decided /\ Mismatch) =>
        /\ pc = "done"
        /\ Len(result.encoder_out) = Len(samples)
        /\ \A e \in Examples : result.encoder_out[e + 1] = Over(ZeroVec, 1)
        /\ result.encoder_padding_mask = None

\* a rejected batch with a mismatched example and an example whose own three
\* streams are consistent and hold a delimiter
C3_Witness ==
    /\ pc = "done"
    /\ Mismatch
    /\ \E e \in Examples :
        /\ Delims(e, "start_leaf") >= 1
        /\ Delims(e, "start_leaf") = Delims(e, "end_leaf")
        /\ Delims(e, "start_leaf") = Delims(e, "path")

-----------------------------------------------------------------------------
(* C4 *)

\* C4: forward returns the zero sentinel if and only if some stream has no
\* delimiter anywhere in the batch or some row has different delimiter
\* counts in the three streams; column positions play no part.
C4_SentinelIff ==
    Decided =>
        ((pc = "done" /\ result = default_return)
            <=> (SomeStreamWithoutDelimiter \/ Mismatch))

\* an accepted batch whose delimiters stand in different columns in the
\* start-leaf and the path stream
C4_Witness ==
    /\ Accepted
    /\ start_leaf_inds # path_inds
    /\ Len(start_leaf_tokens[1]) = Len(path_tokens[1])

-----------------------------------------------------------------------------
(* What _split_seq returned for each stream of the batch in hand *)

\* the result of the _split_seq call forward makes for stream key
SplitOf(key) ==
    _split_seq(TokensOf(key), LengthsOf(key), IndsOf(key), split_inds)

\* the flat sub-sequences of stream key without their padding: row j cut to
\* its reported length
Produced(key) ==
    LET r == SplitOf(key)
    IN  [j \in 1..Len(r.padded) |-> PySlice(r.padded[j], 0, r.seq_lengths[j])]

\* the true flat sub-sequences of stream key: the runs of every example, in
\* example order
TrueSegments(key) ==
    Flatten([r \in 1..Len(samples) |-> Runs(samples[r][key], DelimOf(key))])

\* the leaf sums have been computed
LeafSummed == Accepted /\ pc # "embed"

-----------------------------------------------------------------------------
(* C5 *)

\* the sum of the leaf embeddings of the first len tokens of a flat row
SumOfFirst(row, len) ==
    VecSum([c \in 1..len |-> Embedding(row[c], leaf_pad)])

\* C5: for every flat leaf sub-sequence of true length L padded to width
\* P > L, the start-leaf (and end-leaf) sum equals the sum of the embeddings
\* of its first L real tokens.
C5_MaskedSumOfRealTokens ==
    LeafSummed =>
        /\ \A j \in 1..Len(start_leaf_seqs) :
            Len(start_leaf_seqs[j]) > Len(TrueSegments("start_leaf")[j]) =>
                start_leaf_sums[j] =
                    SumOfFirst(start_leaf_seqs[j],
                               Len(TrueSegments("start_leaf")[j]))
        /\ \A j \in 1..Len(end_leaf_seqs) :
            Len(end_leaf_seqs[j]) > Len(TrueSegments("end_leaf")[j]) =>
                end_leaf_sums[j] =
                    SumOfFirst(end_leaf_seqs[j],
                               Len(TrueSegments("end_leaf")[j]))

-----------------------------------------------------------------------------
(* C6 *)

\* C6: the mask returned by _split_seq is true exactly at the pad positions:
\* at column c (0-based) of flat row j exactly when c >= seq_lengths[j].
C6_MaskTrueAtPadding ==
    Accepted =>
        \A key \in Streams :
            LET r == SplitOf(key)
            IN  \A j \in 1..Len(r.padded) :
                    \A c \in 0..(Len(r.padded[j]) - 1) :
                        r.mask[j][c + 1] <=> (c >= r.seq_lengths[j])

-----------------------------------------------------------------------------
(* C7 *)

\* the fused tensor has been computed
Fused == Accepted /\ pc \in {"loop", "done"}

\* C7 as stated: in every flat tensor the N instances of example e are the
\* rows split_inds[e] .. split_inds[e+1]-1.
C7_RowsAtSplitInds ==
    Accepted =>
        \A key \in Streams :
            LET produced == Produced(key)
            IN  \A e \in Examples :
                    \A k \in 1..Delims(e, key) :
                        produced[split_inds[e + 1] + k] =
                            Runs(samples[e + 1][key], DelimOf(key))[k]

\* C7 (amended): in every flat tensor, and in z, the N instances of example
\* e are the rows split_inds[e]+e .. split_inds[e+1]+e-1, followed by the
\* trailing segment of e at row split_inds[e+1]+e; the flat tensor has
\* split_inds[B]+B rows.
C7_RowsAtSplitIndsPlusExample ==
    Accepted =>
        /\ \A key \in Streams :
            LET produced == Produced(key)
            IN  /\ Len(produced) = split_inds[Len(samples) + 1] + Len(samples)
                /\ \A e \in Examples :
                    LET runs == Runs(samples[e + 1][key], DelimOf(key))
                    IN  /\ split_inds[e + 2] - split_inds[e + 1] = Len(runs) - 1
                        /\ \A k \in 1..Len(runs) :
                            produced[split_inds[e + 1] + e + k] = runs[k]
        /\ Fused =>
            /\ Len(z) = split_inds[Len(samples) + 1] + Len(samples)
            /\ \A e \in Examples :
                LET runs == Runs(samples[e + 1].path, path_path)
                IN  \A k \in 1..Len(runs) :
                        z[split_inds[e + 1] + e + k].h = runs[k]

\* z is computed for a batch of two examples, the second of which has an
\* instance
C7_Witness ==
    /\ Fused
    /\ Len(samples) = 2
    /\ Delims(1, "start_leaf") >= 1

-----------------------------------------------------------------------------
(* C8 *)

\* C8: split_inds has length B+1, starts at 0, is non-decreasing, its
\* consecutive differences are the delimiter counts of the start-leaf rows,
\* and its last entry is the delimiter count of the whole batch.
C8_SplitIndsIsCumulativeCount ==
    IndexBuilt =>
        /\ Len(split_inds) = Len(samples) + 1
        /\ split_inds[1] = 0
        /\ \A e \in Examples : split_inds[e + 1] <= split_inds[e + 2]
        /\ \A e \in Examples :
            split_inds[e + 2] - split_inds[e + 1] = Delims(e, "start_leaf")
        /\ split_inds[Len(samples) + 1] =
                Sum([r \in 1..Len(samples) |-> Delims(r - 1, "start_leaf")])

\* split_inds is built for two examples that both hold delimiters
C8_Witness ==
    /\ IndexBuilt
    /\ Len(samples) = 2
    /\ Delims(0, "start_leaf") >= 2
    /\ Delims(1, "start_leaf") >= 1

-----------------------------------------------------------------------------
(* C9 *)

\* C9: _split_seq emits for every row its delimiter count plus one
\* sub-sequences, in row order; a row without delimiter gives one
\* sub-sequence, its whole unpadded content; the flat list and seq_lengths
\* have split_inds[B] + B rows.
C9_OneMoreThanDelimiters ==
    Accepted =>
        \A key \in Streams :
            LET r == SplitOf(key)
            IN  /\ Len(r.padded) = split_inds[Len(samples) + 1] + Len(samples)
                /\ Len(r.seq_lengths) = Len(r.padded)
                /\ \A e \in Examples :
                    /\ Len(RowSeqs(TokensOf(key), LengthsOf(key), IndsOf(key),
                                   split_inds, e)) = Delims(e, key) + 1
                    /\ Delims(e, key) = 0 =>
                            PySlice(r.padded[FlatStart(e) + 1], 0,
                                    r.seq_lengths[FlatStart(e) + 1])
                                = samples[e + 1][key]

\* an accepted batch with a non-empty row without delimiter behind a row
\* with delimiters
C9_Witness ==
    /\ Accepted
    /\ Len(samples) = 2
    /\ Delims(0, "path") >= 1
    /\ Delims(1, "path") = 0
    /\ Len(samples[2].path) >= 1

-----------------------------------------------------------------------------
(* C10 *)

\* C10: the sub-sequences of a left-padded row are the maximal
\* delimiter-free runs of its unpadded content: joined with the delimiter
\* they give tokens[i, max_len-len : max_len]; none holds a delimiter or a
\* pad; every length is >= 0 and is the number of tokens sliced; the lengths
\* sum to len minus the delimiter count.
C10_RunsOfUnpaddedContent ==
    Accepted =>
        \A key \in Streams : \A e \in Examples :
            LET tokens == TokensOf(key)
                len == LengthsOf(key)[e + 1]
                max_len == Len(tokens[1])
                rs == RowSeqs(tokens, LengthsOf(key), IndsOf(key),
                              split_inds, e)
                sl == split_lengths(tokens, LengthsOf(key), IndsOf(key),
                                    split_inds, e)
            IN  /\ rs = Runs(samples[e + 1][key], DelimOf(key))
                /\ Join(rs, DelimOf(key)) =
                        PySlice(tokens[e + 1], max_len - len, max_len)
                /\ \A k \in 1..Len(rs) : \A c \in 1..Len(rs[k]) :
                        rs[k][c] \notin {DelimOf(key), pad_idx}
                /\ Len(sl) = Len(rs)
                /\ \A k \in 1..Len(sl) : sl[k] >= 0 /\ sl[k] = Len(rs[k])
                /\ Sum(sl) = len - Delims(e, key)

\* an accepted batch with a left-padded row that starts with a delimiter
\* and has a non-empty run behind it
C10_Witness ==
    /\ Accepted
    /\ \E e \in Examples :
        /\ Len(samples[e + 1].start_leaf) < Len(start_leaf_tokens[1])
        /\ Len(samples[e + 1].start_leaf) >= 2
        /\ samples[e + 1].start_leaf[1] = leaf_path
        /\ samples[e + 1].start_leaf[2] # leaf_path

-----------------------------------------------------------------------------
(* C11 *)

\* the path sub-sequences have been sorted, encoded and unsorted
PathEncoded == Accepted /\ pc \in {"fuse", "loop", "done"}

\* C11: the second sort_order of forward is the inverse of the first: it is
\* a permutation, selecting the sorted lengths and the sorted rows with it
\* gives back the lengths and rows in flat order, and row j of h_n is the
\* encoding of flat path sub-sequence j, whatever the lengths and ties.
C11_UnsortInvertsSort ==
    PathEncoded =>
        LET flat_paths == SplitOf("path")
            n == Len(flat_paths.padded)
            embedded == PathEmbedding(flat_paths.padded)
        IN  /\ Len(sort_order) = n
            /\ Len(h_n) = n
            /\ {sort_order[j] : j \in 1..n} = 0..(n - 1)
            /\ index_select(path_lens, sort_order) = flat_paths.seq_lengths
            /\ index_select(path_seqs, sort_order) = embedded
            /\ index_select(index_select(embedded, ArgSort(sort_order)),
                            sort_order) = embedded
            /\ \A j \in 1..n :
                    h_n[j] = LstmFinalState(embedded[j], flat_paths.seq_lengths[j])

\* three flat rows with a tie among their lengths, sorted by a permutation
\* that is not its own inverse
C11_Witness ==
    /\ PathEncoded
    /\ Len(sort_order) = 3
    /\ ArgSort(sort_order) # sort_order
    /\ \E a, b \in 1..3 : a # b /\ path_lens[a] = path_lens[b]
    /\ \E a, b \in 1..3 : path_lens[a] # path_lens[b]

-----------------------------------------------------------------------------
(* C12 *)

\* padded width of a flat tensor
WidthOf(seqs) == IF Len(seqs) = 0 THEN 0 ELSE Len(seqs[1])

\* C12: _truncate_seqs(M, seqs, lens, masks) returns its three arguments
\* unchanged when the width is <= M; otherwise it keeps every row, cuts each
\* row of seqs and of the mask to its first M columns, and turns every
\* length into min(length, M), which is <= M and <= the new width.
C12_TruncationCutsToM ==
    tr_out # None =>
        LET M == tr_args.max_length
            seqs == tr_args.seqs
            lens == tr_args.seq_lens
            masks == tr_args.seq_masks
        IN  IF WidthOf(seqs) <= M
            THEN tr_out = [seqs |-> seqs, seq_lens |-> lens, seq_masks |-> masks]
            ELSE /\ Len(tr_out.seqs) = Len(seqs)
                 /\ \A j \in 1..Len(seqs) : tr_out.seqs[j] = SubSeq(seqs[j], 1, M)
                 /\ (lens = None) <=> (tr_out.seq_lens = None)
                 /\ lens # None =>
                        /\ Len(tr_out.seq_lens) = Len(lens)
                        /\ \A j \in 1..Len(lens) :
                            /\ tr_out.seq_lens[j] = Min(lens[j], M)
                            /\ tr_out.seq_lens[j] <= M
                            /\ tr_out.seq_lens[j] <= WidthOf(tr_out.seqs)
                 /\ (masks = None) <=> (tr_out.seq_masks = None)
                 /\ masks # None =>
                        /\ Len(tr_out.seq_masks) = Len(masks)
                        /\ \A j \in 1..Len(masks) :
                            tr_out.seq_masks[j] = SubSeq(masks[j], 1, M)

\* a truncating call with lengths and a mask, one row longer than M and
\* another shorter than M
C12_Witness ==
    /\ tr_out # None
    /\ WidthOf(tr_args.seqs) > tr_args.max_length
    /\ tr_args.seq_lens # None
    /\ tr_args.seq_masks # None
    /\ \E a, b \in 1..Len(tr_args.seq_lens) :
            /\ tr_args.seq_lens[a] > tr_args.max_length
            /\ tr_args.seq_lens[b] < tr_args.max_length

-----------------------------------------------------------------------------
(* C13 *)

\* collate returned a batch for a non-empty sample list
Collated == cpc # "gather" /\ Len(items) > 0

\* the last n entries of a row (what a left-padded row holds)
LastOf(row, n) == SubSeq(row, Len(row) - n + 1, Len(row))

\* the context streams and the keys of their tensors in net_input
TensorKeys ==
    [source |-> [tokens |-> "src_tokens", lengths |-> "src_lengths"],
     start_leaf |-> [tokens |-> "start_leaf_tokens",
                     lengths |-> "start_leaf_lengths"],
     end_leaf |-> [tokens |-> "end_leaf_tokens",
                   lengths |-> "end_leaf_lengths"],
     path |-> [tokens |-> "path_tokens", lengths |-> "path_lengths"]]

-----------------------------------------------------------------------------
(* C14 *)

\* C14: the batch is in the order of the sample list: row j of every
\* tensor belongs to the j-th sample given to collate and id lists the
\* example ids in the original input order.
C14_OriginalOrder ==
    Collated =>
        LET net == batch.net_input
        IN  /\ batch.id = [j \in 1..Len(items) |-> items[j].id]
            /\ \A j \in 1..Len(items) :
                \A key \in DOMAIN TensorKeys :
                    /\ net[TensorKeys[key].lengths][j] = Len(items[j][key])
                    /\ LastOf(net[TensorKeys[key].tokens][j], Len(items[j][key]))
                            = items[j][key]

-----------------------------------------------------------------------------
(* C16 *)

\* C16: for an empty sample list collate returns the empty dict, having
\* sorted and built nothing; for a non-empty list it returns a dict whose
\* keys are id, ntokens, net_input, target and nsentences.
C16_EmptyOrFiveKeys ==
    cpc # "gather" =>
        IF Len(items) = 0
        THEN DOMAIN batch = {} /\ collate_order = None
        ELSE DOMAIN batch = {"id", "ntokens", "net_input", "target", "nsentences"}

\* collate has returned for an empty list
C16_Witness == cpc # "gather" /\ Len(items) = 0

\* collate has returned for two samples without targets
C16_WitnessFiveKeys ==
    /\ Collated
    /\ Len(items) = 2
    /\ items[1].target = None

-----------------------------------------------------------------------------
(* C15 *)

\* C15: forward never ends with an error: no call reaches the raised
\* position, and every length handed to pack_padded_sequence is at least 1.
C15_AlwaysAResult ==
    /\ pc # "raised"
    /\ pc = "encode" => \A j \in 1..Len(path_lens) : path_lens[j] >= 1

-----------------------------------------------------------------------------
(* C17 *)

\* the pad symbol of the dictionary of a stream
PadOf(key) ==
    IF key = "source" THEN dicts.src
    ELSE IF key = "path" THEN dicts.path ELSE dicts.leaf

\* C17: every padding step pads with the pad symbol of the stream it pads:
\* collate fills each of the four tensors up to the longest row of its own
\* stream with the pad of that stream's dictionary, and _split_seq fills
\* (and masks) the flat rows of a stream with the pad of that stream's
\* dictionary, whatever the pad ids of the dictionaries are.
C17_PadsWithOwnSymbol ==
    /\ Collated =>
            \A key \in DOMAIN TensorKeys :
                LET t == batch.net_input[TensorKeys[key].tokens]
                    lens == batch.net_input[TensorKeys[key].lengths]
                IN  \A j \in 1..Len(t) :
                        /\ Len(t[j]) = SetMax({Len(items[k][key]) :
                                                    k \in 1..Len(items)})
                        /\ \A c \in 1..(Len(t[j]) - lens[j]) :
                                t[j][c] = PadOf(key)
    /\ cpc = "split" =>
            \A key \in Streams :
                LET r == split_out[key]
                IN  \A j \in 1..Len(r.padded) :
                        /\ \A c \in (r.seq_lengths[j] + 1)..Len(r.padded[j]) :
                                r.padded[j][c] = PadOf(key)
                        /\ \A c \in 1..Len(r.padded[j]) :
                                r.mask[j][c] <=> (r.padded[j][c] # PadOf(key))

-----------------------------------------------------------------------------
(* C18 *)

\* a line of text without its leading and trailing whitespace
Trim(text) ==
    LET real == {k \in 1..Len(text) : text[k] \notin Whitespace}
    IN  IF real = {} THEN <<>>
        ELSE SubSeq(text, CHOOSE k \in real : \A m \in real : k <= m,
                          CHOOSE k \in real : \A m \in real : k >= m)

\* the space-separated fields of a line of the input file
FieldsOf(text) == Runs(Trim(text), " ")

\* the input lines that have at least 3 fields, in input order
Retained == SelectSeq(input_lines, LAMBDA text : Len(FieldsOf(text)) >= 3)

\* s with every pipe replaced by a space
Spaced(s) == [k \in 1..Len(s) |-> IF s[k] = "|" THEN " " ELSE s[k]]

\* the tuples of a line that have at least 3 pipe-separated parts
GoodTuples(text) ==
    SelectSeq(SubSeq(FieldsOf(text), 3, Len(FieldsOf(text))),
              LAMBDA f : Count(f, "|") >= 2)

\* positions of the first and of the last pipe of a tuple
FirstBar(f) == CHOOSE k \in 1..Len(f) : f[k] = "|" /\ \A m \in 1..(k - 1) : f[m] # "|"
LastBar(f) == CHOOSE k \in 1..Len(f) : f[k] = "|" /\ \A m \in (k + 1)..Len(f) : f[m] # "|"

\* first part | last part
LeafEntry(f) ==
    SubSeq(f, 1, FirstBar(f) - 1) \o <<"|">> \o SubSeq(f, LastBar(f) + 1, Len(f))

\* the interior parts with their pipes
PathEntry(f) == SubSeq(f, FirstBar(f) + 1, LastBar(f) - 1)

\* entries separated by one space; the empty line for no entry
Spread(entries) == IF entries = <<>> THEN <<>> ELSE Join(entries, " ")

\* C18: the four files have the same number of lines, one per input line
\* with at least 3 space-separated fields and in input order (a line with
\* fewer fields adds nothing), and line k of each file describes the k-th
\* such input line: its second field in src, its first field in trg, its
\* tuples in leaf and path.
C18_FourParallelFiles ==
    /\ Len(src_file) = Len(Retained)
    /\ Len(trg_file) = Len(Retained)
    /\ Len(leaf_file) = Len(Retained)
    /\ Len(path_file) = Len(Retained)
    /\ \A k \in 1..Len(Retained) :
        /\ src_file[k] = Spaced(FieldsOf(Retained[k])[2])
        /\ trg_file[k] = Spaced(FieldsOf(Retained[k])[1])
        /\ leaf_file[k] =
                Spread([m \in 1..Len(GoodTuples(Retained[k])) |->
                            LeafEntry(GoodTuples(Retained[k])[m])])
        /\ path_file[k] =
                Spread([m \in 1..Len(GoodTuples(Retained[k])) |->
                            PathEntry(GoodTuples(Retained[k])[m])])

\* three lines read, the second with fewer than 3 fields, the other two
\* written
C18_Witness ==
    /\ Len(input_lines) = 3
    /\ Len(FieldsOf(input_lines[2])) < 3
    /\ Len(src_file) = 2
    /\ src_file[1] # src_file[2]

-----------------------------------------------------------------------------
(* C19 *)

\* the tuples (fields 3, 4, ...) of a line
TuplesOf(text) == SubSeq(FieldsOf(text), 3, Len(FieldsOf(text)))

\* C19: for every written line, the leaf line and the path line hold one
\* entry per tuple with at least 3 pipe-separated parts, in order, and
\* nothing for any other tuple: first part | last part in the leaf line,
\* the interior parts joined by | in the path line; the two lines have the
\* same number of entries, and both are empty when no tuple has 3 parts.
C19_OneEntryPerGoodTuple ==
    /\ Len(leaf_file) = Len(Retained)
    /\ Len(path_file) = Len(Retained)
    /\ \A k \in 1..Len(Retained) :
        LET good == GoodTuples(Retained[k])
            leaves == split(leaf_file[k], " ")
            paths == split(path_file[k], " ")
        IN  /\ Len(leaves) = Len(paths)
            /\ good = <<>> => leaf_file[k] = <<>> /\ path_file[k] = <<>>
            /\ good # <<>> =>
                /\ Len(leaves) = Len(good)
                /\ \A m \in 1..Len(good) :
                    /\ leaves[m] = LeafEntry(good[m])
                    /\ paths[m] = PathEntry(good[m])

\* a written line with a tuple of fewer than 3 parts before a tuple of
\* 3 parts
C19_Witness ==
    /\ Len(leaf_file) >= 1
    /\ Len(input_lines) = 1
    /\ Len(TuplesOf(input_lines[1])) = 2
    /\ Count(TuplesOf(input_lines[1])[1], "|") < 2
    /\ Count(TuplesOf(input_lines[1])[2], "|") >= 2
    /\ leaf_file[1] # <<>>

\* a written line none of whose tuples has 3 parts
C19_WitnessAllMalformed ==
    /\ Len(leaf_file) >= 1
    /\ Len(input_lines) = 1
    /\ Len(TuplesOf(input_lines[1])) = 2
    /\ GoodTuples(input_lines[1]) = <<>>

-----------------------------------------------------------------------------
(* C20 *)

\* C20: FConvMultiContextEncoder.forward returns two tensors with
\* src_len + 1 positions per example: the primary encoder's outputs at
\* positions 0 .. src_len-1 and the context vector of the same example at
\* position src_len; the mask is None exactly when the primary mask is
\* None, else the primary mask with one more column that is FALSE in
\* every row.
C20_ContextAppended ==
    mpc = "done" =>
        LET B == Len(src_tokens)
            src_len == Len(src_tokens[1])
            out == multi_out.encoder_out
            mask == multi_out.encoder_padding_mask
        IN  /\ Len(out) = 2
            /\ \A k \in 1..2 :
                /\ Len(out[k]) = B
                /\ \A b \in 1..B :
                    /\ Len(out[k][b]) = src_len + 1
                    /\ SubSeq(out[k][b], 1, src_len)
                            = src_output.encoder_out[k][b]
                    /\ out[k][b][src_len + 1] = ctx_output.encoder_out[b]
            /\ (mask = None) <=> (src_output.encoder_padding_mask = None)
            /\ mask # None =>
                /\ Len(mask) = B
                /\ \A b \in 1..B :
                    /\ Len(mask[b]) = src_len + 1
                    /\ SubSeq(mask[b], 1, src_len)
                            = src_output.encoder_padding_mask[b]
                    /\ mask[b][src_len + 1] = FALSE

\* a returned pair for two sources of different lengths (so with a mask)
\* and context vectors that are not the sentinel
C20_Witness ==
    /\ mpc = "done"
    /\ Len(src_tokens) = 2
    /\ multi_out.encoder_padding_mask # None
    /\ ctx_output.encoder_out[1] # ctx_output.encoder_out[2]

-----------------------------------------------------------------------------
(* C22 *)

\* C22: split_inds is computed once, at the start of forward, and no later
\* step changes it: across every step taken after it was built it keeps its
\* value, and what the aggregation loop reads is what was computed from the
\* start-leaf delimiter mask.
C22_SplitIndsFrame ==
    [][/\ (IndexBuilt /\ IndexBuilt') => split_inds' = split_inds
       /\ pc \in {"loop", "done"} => split_inds = SplitInds(start_leaf_tokens)]_vars

\* forward returned the vectors of two examples with two delimiters or
\* more between them
C22_Witness ==
    /\ ReturnedVectors
    /\ Len(samples) = 2
    /\ split_inds[3] >= 2
    /\ split_inds[2] >= 1

-----------------------------------------------------------------------------
(* C24 *)

\* C24: after the iteration for example e (0-based) cur_max is
\* split_inds[e+1] + e, whichever branches were taken so far; cur_max, the
\* last row of z read, never leaves 0 .. split_inds[B] + B - 1, so no
\* iteration fails; one vector is appended per iteration and encoder_out
\* has B rows.
C24_LoopInvariant ==
    /\ Fused =>
        /\ i \in 0..BatchSize
        /\ Len(output_sums) = i
        /\ Len(z) = split_inds[BatchSize + 1] + BatchSize
        /\ i = 0 => cur_max = -1
        /\ i >= 1 =>
            /\ cur_max = split_inds[i + 1] + (i - 1)
            /\ cur_max \in 0..(split_inds[BatchSize + 1] + BatchSize - 1)
    /\ ~(pc = "raised" /\ z # None)
    /\ ReturnedVectors => Len(result.encoder_out) = BatchSize

\* the loop has finished for two examples, having taken the start == end
\* branch for the first and the other branch for the second
C24_Witness ==
    /\ Fused
    /\ i = 2
    /\ BatchSize = 2
    /\ split_inds[2] = 0
    /\ split_inds[3] >= 1

-----------------------------------------------------------------------------
(* C25 *)

\* the 0-based columns of row e of the padded stream key that hold the
\* stream's delimiter
DelimColumns(e, key) ==
    {c \in 0..(Len(TokensOf(key)[e + 1]) - 1) :
        TokensOf(key)[e + 1][c + 1] = DelimOf(key)}

\* rows split_inds[e] .. split_inds[e+1]-1 of the position table of key
TableRows(e, key) == PySlice(IndsOf(key), split_inds[e + 1], split_inds[e + 2])

\* C25: in an accepted batch split_inds indexes each of the three position
\* tables: the rows split_inds[e] .. split_inds[e+1]-1 of the table are the
\* delimiter positions of row e of that stream, in increasing column order.
C25_SplitIndsIndexesTables ==
    Accepted =>
        \A key \in Streams : \A e \in Examples :
            LET rows == TableRows(e, key)
            IN  /\ Len(rows) = Cardinality(DelimColumns(e, key))
                /\ \A k \in 1..Len(rows) : rows[k][1] = e
                /\ {rows[k][2] : k \in 1..Len(rows)} = DelimColumns(e, key)
                /\ \A k \in 1..(Len(rows) - 1) : rows[k][2] < rows[k + 1][2]

\* an accepted batch of two examples, the first with two delimiters in each
\* stream and the second with one
C25_Witness ==
    /\ Accepted
    /\ Len(samples) = 2
    /\ Cardinality(DelimColumns(0, "path")) = 2
    /\ Cardinality(DelimColumns(1, "end_leaf")) = 1
    /\ Len(TableRows(1, "start_leaf")) = 1

-----------------------------------------------------------------------------
(* C26 *)

\* C26: net_input holds prev_output_tokens exactly when the first sample has
\* a target and input_feeding is true; target is None exactly when the first
\* sample has no target; ntokens is the sum of the target lengths when there
\* is a target and the sum of the source lengths otherwise.
C26_TargetDependentFields ==
    Collated =>
        /\ ("prev_output_tokens" \in DOMAIN batch.net_input)
                <=> (items[1].target # None /\ input_feeding)
        /\ (batch.target = None) <=> (items[1].target = None)
        /\ batch.ntokens =
                IF items[1].target # None
                THEN Sum([j \in 1..Len(items) |-> Len(items[j].target)])
                ELSE Sum([j \in 1..Len(items) |-> Len(items[j].source)])

\* two samples with targets were collated with input feeding, the targets
\* holding another number of tokens than the sources
C26_Witness ==
    /\ Collated
    /\ Len(items) = 2
    /\ items[1].target # None
    /\ input_feeding
    /\ "prev_output_tokens" \in DOMAIN batch.net_input
    /\ batch.ntokens # Len(items[1].source) + Len(items[2].source)

\* two samples without targets were collated
C26_WitnessNoTarget ==
    /\ Collated
    /\ Len(items) = 2
    /\ items[1].target = None
    /\ batch.target = None
    /\ batch.ntokens = Len(items[1].source) + Len(items[2].source)

-----------------------------------------------------------------------------
(* C27 *)

\* C27: nsentences of the batch is the number of samples in the batch, the
\* number of rows of src_tokens.
C27_NsentencesIsBatchSize ==
    Collated =>
        /\ batch.nsentences = Len(items)
        /\ batch.nsentences = Len(batch.net_input.src_tokens)

-----------------------------------------------------------------------------
(* C28 *)

\* C28: __getitem__ splits the leaf item at its first leaf marker: when the
\* leaf item holds a marker, start_leaf ++ <<marker>> ++ end_leaf is the leaf
\* item, start_leaf holds no marker, and the path item and the id are
\* returned as they are; when it holds none the call fails and returns no
\* sample.
C28_SplitsAtFirstMarker ==
    /\ gpc = "returned" =>
        /\ Count(dataset.leaf, leaf_leaf) >= 1
        /\ sample.start_leaf \o <<leaf_leaf>> \o sample.end_leaf = dataset.leaf
        /\ Count(sample.start_leaf, leaf_leaf) = 0
        /\ sample.path = dataset.path
        /\ sample.id = index
    /\ gpc = "raised" => Count(dataset.leaf, leaf_leaf) = 0 /\ sample = None
    /\ (gpc = "called" /\ Count(dataset.leaf, leaf_leaf) = 0)
            => ~ENABLED GetItemReturn

\* a sample was returned for a leaf item with two markers and tokens around
\* them
C28_Witness ==
    /\ gpc = "returned"
    /\ Count(dataset.leaf, leaf_leaf) = 2
    /\ Len(sample.start_leaf) >= 1
    /\ Count(sample.end_leaf, leaf_leaf) = 1

\* the call failed for a non-empty leaf item without a marker
C28_WitnessNoMarker ==
    /\ gpc = "raised"
    /\ Len(dataset.leaf) >= 2

-----------------------------------------------------------------------------
(* C29 *)

\* C29: FConvContextEncoder.forward does not depend on its context input:
\* two calls with the same src_tokens and src_lengths (and the same dropout
\* masks) return the same encoder_out and encoder_padding_mask, whatever
\* their ctx_tokens and ctx_lengths; no call fails.
C29_IndependentOfContext ==
    \A m, n \in 1..Len(ctx_calls) :
        /\ ctx_calls[m].out # SizeMismatch
        /\ (/\ ctx_calls[m].src_tokens = ctx_calls[n].src_tokens
            /\ ctx_calls[m].src_lengths = ctx_calls[n].src_lengths
            /\ ctx_calls[m].draw = ctx_calls[n].draw)
                => ctx_calls[m].out = ctx_calls[n].out

\* two calls on the same padded source batch with context batches of other
\* widths have returned
C29_Witness ==
    /\ Len(ctx_calls) = 2
    /\ ctx_calls[1].src_tokens = ctx_calls[2].src_tokens
    /\ ctx_calls[1].draw = ctx_calls[2].draw
    /\ ctx_calls[1].ctx_tokens # ctx_calls[2].ctx_tokens
    /\ Len(ctx_calls[1].ctx_tokens[1]) # Len(ctx_calls[1].src_tokens[1])
    /\ ctx_calls[1].out # SizeMismatch
    /\ ctx_calls[1].out.encoder_padding_mask # None

-----------------------------------------------------------------------------
(* C30 *)

\* the pair kept under 'encoder_out', None when there is no dict or no entry
StoredPair ==
    IF incremental_state = None THEN None
    ELSE IF "encoder_out" \in DOMAIN incremental_state.dict
         THEN incremental_state.dict["encoder_out"]
         ELSE None

\* pair is (encoder_a transposed, encoder_b) of the encoder output given
IsSplitOf(pair, given) ==
    /\ Len(pair) = 2
    /\ pair[2] = given[2]
    /\ Len(pair[1]) = Len(given[1])
    /\ \A b \in 1..Len(given[1]) :
        /\ Len(pair[1][b]) = EncDim
        /\ \A c \in 1..EncDim :
            /\ Len(pair[1][b][c]) = EncLen
            /\ \A t \in 1..EncLen : pair[1][b][c][t] = given[1][b][t][c]

\* pair holds the rows of old numbered by order, in that order
IsSelectionOf(pair, old, order) ==
    /\ Len(pair) = 2
    /\ \A k \in 1..2 :
        /\ Len(pair[k]) = Len(order)
        /\ \A j \in 1..Len(order) : pair[k][j] = old[k][order[j] + 1]

\* C30: over the steps of a decoding that share one incremental_state, the
\* first _split_encoder_out stores (encoder_a transposed, encoder_b) under
\* 'encoder_out' and returns it; every later call returns the stored pair
\* whatever encoder_out it is given and leaves it as it is;
\* reorder_incremental_state replaces the stored pair by its rows selected
\* with new_order and does nothing when no pair is stored; with
\* incremental_state None nothing is stored and every call returns the
\* split of what it is given.
C30_EncoderOutCache ==
    [][/\ (dpc' = "forward" /\ dsteps' = dsteps + 1) =>
            IF incremental_state = None
            THEN /\ incremental_state' = None
                 /\ IsSplitOf(encoder_ab', encoder_out_given')
            ELSE IF StoredPair = None
            THEN /\ IsSplitOf(StoredPair', encoder_out_given')
                 /\ encoder_ab' = StoredPair'
            ELSE /\ StoredPair' = StoredPair
                 /\ encoder_ab' = StoredPair
       /\ (dpc' = "reorder" /\ dsteps' = dsteps + 1) =>
            IF StoredPair = None
            THEN incremental_state' = incremental_state
            ELSE IsSelectionOf(StoredPair', StoredPair, new_order')
       /\ (dpc # "idle" /\ incremental_state = None) => incremental_state' = None
      ]_vars

\* a pair was stored, reordered to another number of rows, and a later
\* forward given another encoder output got the stored pair
C30_Witness ==
    /\ dpc = "forward"
    /\ dsteps = 3
    /\ new_order # None
    /\ StoredPair # None
    /\ encoder_ab = StoredPair
    /\ Len(StoredPair[1]) # Len(encoder_out_given[1])
    /\ StoredPair[2][1][1][1][1] # encoder_out_given[2][1][1][1][1]

\* three calls were made without incremental_state
C30_WitnessNoState ==
    /\ dsteps = 3
    /\ incremental_state = None
    /\ dpc = "forward"
    /\ new_order # None

-----------------------------------------------------------------------------
(* C21 *)

\* C21: a call of forward on the batch of an earlier call ends as that call
\* ended (the same returned dict, or the same exception), whether or not
\* another batch was processed in between: nothing an earlier call wrote
\* (split_inds, cur_max, the flat tensors, the sort order) is read.
C21_SameBatchSameResult ==
    (phase = "again" /\ pc \in {"done", "raised"}) =>
        /\ samples = first_call.samples
        /\ OutcomeOf = first_call.outcome

\* the call on the first batch has returned vectors again, from both
\* branches of the loop, after a batch of another size was processed that
\* returned vectors too
C21_Witness ==
    /\ phase = "again"
    /\ pc = "done"
    /\ first_call.between # None
    /\ Len(first_call.between) # Len(samples)
    /\ Len(samples) = 2
    /\ split_inds = <<0, 0, 1>>
    /\ Len(result.encoder_out) = 2
    /\ result.encoder_out[1] # Over(ZeroVec, 1)

-----------------------------------------------------------------------------
(* C23 *)

\* the flat rows an example gives rise to, computed from its own three
\* unpadded streams alone: one row per run of its path stream, fused with
\* the masked sums of the matching runs of its two leaf streams
OwnRows(s) ==
    LET p == Runs(s.path, path_path)
        a == Runs(s.start_leaf, leaf_path)
        b == Runs(s.end_leaf, leaf_path)
        own_sum(seg) ==
            MaskedEmbeddingSum(<<seg>>,
                               <<[c \in 1..Len(seg) |-> seg[c] # leaf_pad]>>)[1]
    IN  [k \in 1..Len(p) |->
            FuseRow(LstmFinalState(PathEmbedding(<<p[k]>>)[1], Len(p[k])),
                    own_sum(a[k]), own_sum(b[k]))]

\* what the aggregation loop makes of those rows
OwnVector(s) ==
    LET N == Count(s.start_leaf, leaf_path)
    IN  IF N >= 1 THEN MeanOf(OwnRows(s), 0, N, 0)
        ELSE FallbackOf(OwnRows(s), 0)

\* C23: the vector forward returns for an example depends on that example's
\* own three streams only: in every batch that was accepted and returned
\* vectors, the vector of every example is OwnVector of its sample,
\* whatever its row, the other examples and the padding width are; so the
\* same example gets the same vector in any two such batches.
C23_OwnStreamsOnly ==
    ReturnedVectors =>
        \A e \in Examples :
            result.encoder_out[e + 1] = OwnVector(samples[e + 1])

\* vectors were returned for two examples, the first one padded on the
\* left in every stream and without delimiter, the second one with a
\* delimiter, and the two vectors differ
C23_Witness ==
    /\ ReturnedVectors
    /\ Len(samples) = 2
    /\ Delims(0, "start_leaf") = 0
    /\ Delims(1, "path") = 1
    /\ \A key \in Streams :
            /\ Len(samples[1][key]) >= 1
            /\ Len(samples[1][key]) < Len(samples[2][key])
    /\ result.encoder_out[1] # result.encoder_out[2]

\* vectors were returned for a batch that holds the same example in both
\* rows
C23_WitnessTwice ==
    /\ ReturnedVectors
    /\ Len(samples) = 2
    /\ samples[1] = samples[2]
    /\ result.encoder_out[1] = result.encoder_out[2]

====
